---- MODULE Spec2Model ----
(***************************************************************************)
(* Order fulfilment pipeline of the tribi backend: idempotent order        *)
(* creation, payment intents and webhook reconciliation, and eSIM          *)
(* activation through the inventory pool with provider fallback.           *)
(*                                                                         *)
(* Every HTTP handler runs in its own database transaction on a shared     *)
(* relational store.  The committed ledger is the state; what a handler    *)
(* has read or flushed but not yet committed lives in the locals of the    *)
(* worker that runs it (loc), and the handler's position is pc.            *)
(***************************************************************************)
EXTENDS Integers, Sequences, FiniteSets, TLC

(***************************************************************************)
(* Bounds of the model.                                                    *)
(***************************************************************************)
MaxOrders == 2
MaxActivate == 3
MaxStock == 2
MaxPaymentCalls == 3
MaxCalls == 2
MaxEdits == 1
MaxAmount == 30

Workers == {"w1", "w2"}

\* Authenticated users (ids as the session layer supplies them).  The ids 1
\* and 11 make the decimal rendering of one a prefix of the other's.
Users == {1, 11}
\* Idempotency-Key header values, as character sequences; <<>> is an absent
\* (or empty) header.
Keys == {<< >>, <<"a">>, <<"1", "a">>}
Currencies == {"USD", "EUR"}

Null == << >>

VARIABLES
    orders,      \* committed Order rows
    esims,       \* committed EsimProfile rows
    inventory,   \* committed EsimInventory rows
    payments,    \* committed Payment rows
    invoices,    \* committed Invoice rows
    events,      \* committed AnalyticsEvent rows
    ids,         \* auto-increment and uuid counters
    pc,          \* position of each worker's handler
    loc,         \* locals of each worker's handler (its session)
    resp,        \* last response each worker returned
    budget,      \* requests the environment may still send
    settings,    \* the deployment's configuration (app.core.config.settings)
    plans        \* committed Plan rows (the catalog), by id

vars == <<orders, esims, inventory, payments, invoices, events, ids, pc, loc, resp,
          budget, settings, plans>>

ledger == <<orders, esims, inventory, payments, invoices, events>>

(***************************************************************************)
(* Catalog as seeded: plan id -> name, price in thousandths of a currency   *)
(* unit, country and carrier.                                              *)
(***************************************************************************)
Plan ==
    [p \in {1, 2} |->
        IF p = 1
        THEN [id |-> 1, name |-> "Spain 5GB", price_usd |-> 12500,
              country_id |-> 1, carrier_id |-> 1]
        ELSE [id |-> 2, name |-> "France 10GB", price_usd |-> 99000,
              country_id |-> 2, carrier_id |-> 1]]

PlanIds == DOMAIN Plan

\* Plan ids a request may name: the catalog's and one that is in no row.
RequestedPlans == PlanIds \cup {9}

\* Decimal(..).quantize(Decimal("0.01"), ROUND_DOWN) * 100.
to_minor_units_truncated(amount) == amount \div 10

\* Decimal(..).quantize(Decimal("0.01"), ROUND_HALF_UP) * 100, on an amount
\* given in thousandths.
to_minor_units(amount) == (amount + 5) \div 10

_build_plan_snapshot(plan, currency) ==
    [id |-> plan.id,
     name |-> plan.name,
     country_id |-> plan.country_id,
     carrier_id |-> plan.carrier_id,
     price_minor_units |-> to_minor_units(plan.price_usd),
     currency |-> currency]

\* create_order, lines 357-364: the snapshot's price, or the plan's price
\* converted again when the snapshot carries none.
OrderAmount(plan, plan_snapshot) ==
    IF plan_snapshot.price_minor_units <= 0
    THEN to_minor_units(plan.price_usd)
    ELSE plan_snapshot.price_minor_units

(***************************************************************************)
(* str(int) and the f-string that scopes an idempotency key to its user.   *)
(***************************************************************************)
DigitChar(d) == <<"0", "1", "2", "3", "4", "5", "6", "7", "8", "9">>[d + 1]

RECURSIVE Str(_)
Str(n) == IF n < 10 THEN <<DigitChar(n)>> ELSE Str(n \div 10) \o <<DigitChar(n % 10)>>

NormalizedKeyNoSeparator(user_id, idempotency_key) ==
    IF idempotency_key = << >> THEN Null
    ELSE Str(user_id) \o idempotency_key

\* normalized_key = f"{current_user.id}:{idempotency_key}" when a key is given.
NormalizedKey(user_id, idempotency_key) ==
    IF idempotency_key = << >> THEN Null
    ELSE Str(user_id) \o <<":">> \o idempotency_key

(***************************************************************************)
(* Analytics rows form a multiset: the n-th event of a kind for an order   *)
(* and payment carries n.                                                  *)
(***************************************************************************)
EventsOf(ev, type, order_id, payment_id) ==
    {e \in ev : e.event_type = type /\ e.order_id = order_id /\ e.payment_id = payment_id}

record_event(ev, type, order_id, payment_id) ==
    ev \cup {[event_type |-> type, order_id |-> order_id, payment_id |-> payment_id,
              n |-> Cardinality(EventsOf(ev, type, order_id, payment_id)) + 1]}

Idle == [op |-> "none"]
NoResp == [code |-> 0]

OrdersOfAnyUser(user, order_id) == {o \in orders : o.id = order_id}

\* db.query(Order).filter(Order.id == order_id, Order.user_id == current_user.id)
OwnedOrders(user, order_id) == {o \in orders : o.id = order_id /\ o.user_id = user}

OrderById(oid) == CHOOSE o \in orders : o.id = oid
EsimByOrder(oid) == CHOOSE e \in esims : e.order_id = oid

(***************************************************************************)
(* POST /api/orders                                                        *)
(***************************************************************************)

OrderKeyNotUnique(key) == FALSE

\* The unique index on orders.idempotency_key: NULLs never collide.
OrderKeyTaken(key) ==
    /\ key # Null
    /\ \E o \in orders : o.idempotency_key = key

\* Another transaction has flushed, and not yet committed, an order row
\* carrying this key: an insert of the same key waits for it.
OrderKeyPending(w, key) ==
    /\ key # Null
    /\ \E v \in Workers \ {w} :
          /\ pc[v] = "co_commit"
          /\ loc[v].normalized_key = key

\* Lines 336-361: the read-before-write lookup, the plan lookup and the
\* pricing, all plain reads of one snapshot.
CreateOrderBegin(w, user, plan_id, currency, key) ==
    /\ pc[w] = "idle"
    /\ budget.orders > 0
    /\ budget' = [budget EXCEPT !.orders = @ - 1]
    /\ LET normalized_key == NormalizedKey(user, key)
           existing == {o \in orders : normalized_key # Null
                                          /\ o.idempotency_key = normalized_key}
       IN  IF existing # {}
           THEN LET o == CHOOSE x \in existing : TRUE
                IN  /\ resp' = [resp EXCEPT ![w] =
                          [code |-> 200, op |-> "create_order", id |-> o.id,
                           replay |-> TRUE]]
                    /\ UNCHANGED <<pc, loc>>
           ELSE IF plan_id \notin DOMAIN plans
           THEN /\ resp' = [resp EXCEPT ![w] =
                      [code |-> 404, op |-> "create_order"]]
                /\ UNCHANGED <<pc, loc>>
           ELSE /\ pc' = [pc EXCEPT ![w] = "co_flush"]
                /\ loc' = [loc EXCEPT ![w] =
                      [op |-> "create_order", user |-> user, plan_id |-> plan_id,
                       currency |-> currency, key |-> key,
                       normalized_key |-> normalized_key,
                       plan_snapshot |-> _build_plan_snapshot(plans[plan_id], currency),
                       amount_minor_units |->
                           OrderAmount(plans[plan_id],
                                       _build_plan_snapshot(plans[plan_id], currency))]]
                /\ resp' = [resp EXCEPT ![w] = NoResp]
    /\ UNCHANGED <<ledger, ids, settings, plans>>

\* Lines 364-374: db.add(order); db.flush().  The INSERT takes the next
\* auto-increment id and is checked against the unique index.
CreateOrderFlush(w) ==
    /\ pc[w] = "co_flush"
    /\ ~OrderKeyPending(w, loc[w].normalized_key)
    /\ IF OrderKeyTaken(loc[w].normalized_key)
       THEN \* IntegrityError: the request fails, the transaction is rolled back
            /\ pc' = [pc EXCEPT ![w] = "idle"]
            /\ loc' = [loc EXCEPT ![w] = Idle]
            /\ resp' = [resp EXCEPT ![w] = [code |-> 500, op |-> "create_order"]]
            /\ UNCHANGED ids
       ELSE /\ pc' = [pc EXCEPT ![w] = "co_commit"]
            /\ loc' = [loc EXCEPT ![w] = [@ EXCEPT !.op = "create_order"] @@
                                         [order_id |-> ids.order]]
            /\ ids' = [ids EXCEPT !.order = @ + 1]
            /\ UNCHANGED resp
    /\ UNCHANGED <<ledger, budget, settings, plans>>

NoPreRegisteredEsim(l, esim_id) == {}

\* Lines 377-385: the EsimProfile registered for the new order, in the same
\* session as the order itself.
PreRegisteredEsim(l, esim_id) ==
    {[id |-> esim_id, order_id |-> l.order_id, user_id |-> l.user,
      plan_id |-> l.plan_id,
      country_id |-> l.plan_snapshot.country_id,
      carrier_id |-> l.plan_snapshot.carrier_id,
      status |-> "pending_activation",
      activation_code |-> Null, iccid |-> Null, qr_payload |-> Null,
      provisioned_at |-> Null, inventory_item_id |-> 0]}

\* Lines 376-402: the EsimProfile, the checkout-started event, the commit.
CreateOrderCommit(w) ==
    /\ pc[w] = "co_commit"
    /\ LET l == loc[w]
           amount == l.amount_minor_units
       IN  /\ orders' = orders \cup
                 {[id |-> l.order_id, user_id |-> l.user, plan_id |-> l.plan_id,
                   status |-> "created", currency |-> l.currency,
                   amount_minor_units |-> amount,
                   idempotency_key |-> l.normalized_key,
                   plan_snapshot |-> l.plan_snapshot,
                   request_key |-> l.key]}
           /\ esims' = esims \cup PreRegisteredEsim(l, ids.esim)
           /\ ids' = [ids EXCEPT !.esim = @ + 1]
           /\ events' = record_event(events, "checkout_started", l.order_id, 0)
           /\ resp' = [resp EXCEPT ![w] =
                 [code |-> 200, op |-> "create_order", id |-> l.order_id,
                  replay |-> FALSE]]
    /\ pc' = [pc EXCEPT ![w] = "idle"]
    /\ loc' = [loc EXCEPT ![w] = Idle]
    /\ UNCHANGED <<inventory, payments, invoices, budget, settings, plans>>

\* Line 399: db.commit() raises (the database refused or was lost); the
\* request fails and the transaction, flushed order included, is rolled
\* back.  The auto-increment id it took is not given back.
CreateOrderCommitFails(w) ==
    /\ pc[w] = "co_commit"
    /\ pc' = [pc EXCEPT ![w] = "idle"]
    /\ loc' = [loc EXCEPT ![w] = Idle]
    /\ resp' = [resp EXCEPT ![w] = [code |-> 500, op |-> "create_order"]]
    /\ UNCHANGED <<ledger, ids, budget, settings, plans>>

CreateOrder(w) ==
    \/ \E user \in Users, plan_id \in RequestedPlans,
          currency \in Currencies, key \in Keys :
          CreateOrderBegin(w, user, plan_id, currency, key)
    \/ CreateOrderFlush(w)
    \/ CreateOrderCommit(w)
    \/ CreateOrderCommitFails(w)

(***************************************************************************)
(* eSIM inventory (services/esim_inventory.py) and provisioning providers  *)
(* (services/esim_providers.py)                                            *)
(***************************************************************************)
Now == <<"utcnow", 0>>

\* f"LPA:1${activation_code}"
QrFor(activation_code) == <<"LPA:1$">> \o activation_code

\* Python's "a or b" on optional strings (None and "" are both falsy).
Or(a, b) == IF a # Null THEN a ELSE b
\* and on optional integer ids (None and 0 are both falsy).
OrId(a, b) == IF a # 0 THEN a ELSE b

NoLockedInventory(w) == {}

\* Rows another transaction holds a FOR UPDATE lock on: selected by its
\* reserve and not yet committed or rolled back.
LockedInventory(w) ==
    {loc[v].item.id : v \in {x \in Workers \ {w} :
                               pc[x] = "act_commit" /\ loc[x].from_inventory}}

MatchesAnyRow(row, plan_id, country_id, carrier_id) == TRUE

\* The filter of reserve_inventory_item: the most specific tag supplied.
MatchesFilter(row, plan_id, country_id, carrier_id) ==
    IF plan_id # 0 THEN row.plan_id = plan_id
    ELSE IF country_id # 0 THEN row.country_id = country_id
    ELSE IF carrier_id # 0 THEN row.carrier_id = carrier_id
    ELSE TRUE

AnyStatus(row) == TRUE

\* filter(EsimInventory.status == EsimInventoryStatus.AVAILABLE)
IsAvailable(row) == row.status = "available"

\* query.order_by(id).with_for_update(skip_locked=True).first(): the rows
\* the locking read may return, of which it takes the lowest id.
ReserveCandidates(w, plan_id, country_id, carrier_id) ==
    {row \in inventory :
        /\ IsAvailable(row)
        /\ MatchesFilter(row, plan_id, country_id, carrier_id)
        /\ row.id \notin LockedInventory(w)}

NoSkipLocked == FALSE

\* with_for_update(skip_locked=True)
SkipLocked == TRUE

\* A locking read that does not skip waits for the first row of its result
\* while another transaction holds that row's lock.
ReserveWaits(w, plan_id, country_id, carrier_id) ==
    /\ ~SkipLocked
    /\ LET matching == {row \in inventory :
                           /\ row.status = "available"
                           /\ MatchesFilter(row, plan_id, country_id, carrier_id)}
       IN  /\ matching # {}
           /\ (CHOOSE r \in matching : \A q \in matching : r.id <= q.id).id
                  \in LockedInventory(w)

FirstById(rows) == CHOOSE r \in rows : \A q \in rows : r.id <= q.id

result_from_inventory_item(item) ==
    [activation_code |-> item.activation_code,
     iccid |-> item.iccid,
     qr_payload |-> item.qr_payload,
     provider |-> "INVENTORY"]

\* LocalEsimProvider.provision: the profile's own codes if it has any, else
\* codes drawn from uuid4 (n is the draw).
LocalProvision(profile, n) ==
    LET activation_code == Or(profile.activation_code, <<"LOCAL", n>>)
    IN  [activation_code |-> activation_code,
         iccid |-> Or(profile.iccid, <<"89", n>>),
         qr_payload |-> Or(profile.qr_payload, QrFor(activation_code)),
         provider |-> "LOCAL"]

\* ConnectedYouProvider: _fake_result in dry-run mode; in live mode a parsed
\* partner response, which carries an activation code or the call raised.
ConnectedYouProvision(n) ==
    [activation_code |-> <<"CNY", n>>,
     iccid |-> <<"882", n>>,
     qr_payload |-> QrFor(<<"CNY", n>>),
     provider |-> "CONNECTED_YOU"]

\* create_inventory_from_provisioning: a new row, already ASSIGNED.
create_inventory_from_provisioning(id, plan_id, country_id, carrier_id, result) ==
    [id |-> id, plan_id |-> plan_id, country_id |-> country_id,
     carrier_id |-> carrier_id,
     activation_code |-> result.activation_code, iccid |-> result.iccid,
     qr_payload |-> result.qr_payload,
     status |-> "assigned", reserved_at |-> Null, assigned_at |-> Now]

\* _apply_provisioning_to_esim draws from uuid4 only when neither the result
\* nor the profile carries an activation code or an iccid.
DrawsUuid(esim, result) ==
    \/ Or(result.activation_code, esim.activation_code) = Null
    \/ Or(result.iccid, esim.iccid) = Null

\* _apply_provisioning_to_esim, the profile: n is the uuid4 draw.
ApplyToEsim(esim, result, item, n) ==
    LET activation_code ==
            Or(result.activation_code, Or(esim.activation_code, <<"uuid", n>>))
    IN
    [esim EXCEPT
        !.activation_code = activation_code,
        !.iccid = Or(result.iccid, Or(esim.iccid, <<"89001", n>>)),
        !.qr_payload = Or(result.qr_payload, Or(esim.qr_payload, QrFor(activation_code))),
        !.status = "active",
        !.provisioned_at = Now,
        !.inventory_item_id = item.id]

InventoryNotApplied(item, applied) == item

\* _apply_provisioning_to_esim, the inventory row.
ApplyToInventory(item, applied) ==
    [item EXCEPT
        !.activation_code = Or(item.activation_code, applied.activation_code),
        !.iccid = Or(item.iccid, applied.iccid),
        !.qr_payload = Or(item.qr_payload, applied.qr_payload),
        !.status = "assigned",
        !.assigned_at = Or(item.assigned_at, Now)]

serialize_esim(esim) ==
    [code |-> 200, op |-> "activate", order_id |-> esim.order_id,
     activation_code |-> esim.activation_code, iccid |-> esim.iccid,
     status |-> esim.status, inventory_item_id |-> esim.inventory_item_id,
     provisioned_at |-> esim.provisioned_at]

ActivateFails(w, code) ==
    /\ pc' = [pc EXCEPT ![w] = "idle"]
    /\ loc' = [loc EXCEPT ![w] = Idle]
    /\ resp' = [resp EXCEPT ![w] = [code |-> code, op |-> "activate"]]

(***************************************************************************)
(* POST /api/esims/activate                                                *)
(***************************************************************************)

OrderAlwaysPaid(order) == TRUE

\* Line 575: order.status != OrderStatus.PAID is refused.
OrderIsPaid(order) == order.status = "paid"

AnyEsimStatus(esim) == TRUE

\* Line 593: the statuses from which a profile may be activated.
ActivatableStatus(esim) == esim.status \in {"pending_activation", "reserved"}

AlreadyProvisioned(esim) ==
    esim.provisioned_at # Null \/ esim.status \in {"assigned", "active"}

\* Lines 565-610: the ownership and PAID checks, the profile lookup, the
\* idempotent return, and the plan/country/carrier to reserve for.
ActivateBegin(w, user, order_id) ==
    /\ pc[w] = "idle"
    /\ budget.activate > 0
    /\ budget' = [budget EXCEPT !.activate = @ - 1]
    /\ LET found == OwnedOrders(user, order_id)
       IN  IF found = {}
           THEN ActivateFails(w, 404)
           ELSE LET order == CHOOSE o \in found : TRUE
                    profiles == {e \in esims : e.order_id = order_id}
                IN  IF ~OrderIsPaid(order) THEN ActivateFails(w, 400)
                    ELSE IF profiles = {} THEN ActivateFails(w, 404)
                    ELSE LET esim == CHOOSE e \in profiles : TRUE
                         IN  IF AlreadyProvisioned(esim)
                             THEN /\ resp' = [resp EXCEPT ![w] = serialize_esim(esim)]
                                  /\ pc' = [pc EXCEPT ![w] = "idle"]
                                  /\ loc' = [loc EXCEPT ![w] = Idle]
                             ELSE IF ~ActivatableStatus(esim)
                             THEN ActivateFails(w, 400)
                             ELSE /\ pc' = [pc EXCEPT ![w] = "act_reserve"]
                                  /\ loc' = [loc EXCEPT ![w] =
                                        [op |-> "activate", user |-> user,
                                         order_id |-> order_id, esim |-> esim,
                                         plan_id |-> OrId(esim.plan_id, order.plan_id),
                                         country_id |-> OrId(esim.country_id,
                                                             order.plan_snapshot.country_id),
                                         carrier_id |-> OrId(esim.carrier_id,
                                                             order.plan_snapshot.carrier_id),
                                         from_inventory |-> FALSE]]
                                  /\ resp' = [resp EXCEPT ![w] = NoResp]
    /\ UNCHANGED <<ledger, ids, settings, plans>>

\* Lines 612-621: reserve_inventory_item under FOR UPDATE SKIP LOCKED; the
\* RESERVED status is set in the session and written at commit.
ActivateReserve(w) ==
    /\ pc[w] = "act_reserve"
    /\ ~ReserveWaits(w, loc[w].plan_id, loc[w].country_id, loc[w].carrier_id)
    /\ LET l == loc[w]
           rows == ReserveCandidates(w, l.plan_id, l.country_id, l.carrier_id)
       IN  IF rows # {}
           THEN LET item == [FirstById(rows) EXCEPT !.status = "reserved",
                                                    !.reserved_at = Now]
                IN  /\ loc' = [loc EXCEPT ![w] =
                          [l EXCEPT !.from_inventory = TRUE] @@
                          [item |-> item, result |-> result_from_inventory_item(item)]]
                    /\ pc' = [pc EXCEPT ![w] = "act_commit"]
           ELSE /\ pc' = [pc EXCEPT ![w] = "act_provision"]
                /\ UNCHANGED loc
    /\ UNCHANGED <<ledger, ids, resp, budget, settings, plans>>

\* Line 623: get_esim_provider() builds the configured provider; the
\* ConnectedYou constructor raises EsimProvisioningError without a partner
\* id, outside the handler's try block.
ProviderMisconfigured ==
    /\ settings.ESIM_PROVIDER = "CONNECTED_YOU"
    /\ settings.CONNECTED_YOU_PARTNER_ID = Null

ProvisionRaisesMarksFailed(w) ==
    /\ pc[w] = "act_provision"
    /\ ~ProviderMisconfigured
    /\ settings.ESIM_PROVIDER = "CONNECTED_YOU"
    /\ ~settings.CONNECTED_YOU_DRY_RUN
    /\ ActivateFails(w, 502)
    /\ esims' = {IF e.id = loc[w].esim.id THEN [e EXCEPT !.status = "failed"] ELSE e :
                    e \in esims}
    /\ UNCHANGED <<orders, inventory, payments, invoices, events, ids, budget, settings, plans>>

\* Lines 624-630: provider.provision raised EsimProvisioningError (only the
\* live partner call can); the handler answers 502 and the session is
\* closed without a commit.
ProvisionRaises(w) ==
    /\ pc[w] = "act_provision"
    /\ ~ProviderMisconfigured
    /\ settings.ESIM_PROVIDER = "CONNECTED_YOU"
    /\ ~settings.CONNECTED_YOU_DRY_RUN
    /\ ActivateFails(w, 502)
    /\ UNCHANGED <<ledger, ids, budget, settings, plans>>

\* Line 623 with a misconfigured provider: the error escapes the handler.
ProviderConstructionRaises(w) ==
    /\ pc[w] = "act_provision"
    /\ ProviderMisconfigured
    /\ ActivateFails(w, 500)
    /\ UNCHANGED <<ledger, ids, budget, settings, plans>>

\* Lines 625, 632-638: the provider returned; the materialized row is
\* inserted and flushed (it takes the next inventory id).
ProvisionReturns(w) ==
    /\ pc[w] = "act_provision"
    /\ ~ProviderMisconfigured
    /\ LET l == loc[w]
           result == IF settings.ESIM_PROVIDER = "CONNECTED_YOU"
                     THEN ConnectedYouProvision(ids.uuid)
                     ELSE LocalProvision(l.esim, ids.uuid)
           item == create_inventory_from_provisioning(
                       ids.inventory, l.plan_id, l.country_id, l.carrier_id, result)
       IN  /\ loc' = [loc EXCEPT ![w] = l @@ [item |-> item, result |-> result]]
           /\ ids' = [ids EXCEPT !.uuid = @ + 1, !.inventory = @ + 1]
    /\ pc' = [pc EXCEPT ![w] = "act_commit"]
    /\ UNCHANGED <<ledger, resp, budget, settings, plans>>

\* The UPDATE of the profile at commit: it carries the columns whose new
\* value differs from the value the session loaded, and leaves the others
\* as the table has them.
UpdatedEsim(current, loaded, applied) ==
    [current EXCEPT
        !.activation_code = IF applied.activation_code # loaded.activation_code
                            THEN applied.activation_code ELSE @,
        !.iccid = IF applied.iccid # loaded.iccid THEN applied.iccid ELSE @,
        !.qr_payload = IF applied.qr_payload # loaded.qr_payload
                       THEN applied.qr_payload ELSE @,
        !.status = IF applied.status # loaded.status THEN applied.status ELSE @,
        !.provisioned_at = IF applied.provisioned_at # loaded.provisioned_at
                           THEN applied.provisioned_at ELSE @,
        !.inventory_item_id = IF applied.inventory_item_id # loaded.inventory_item_id
                              THEN applied.inventory_item_id ELSE @]

\* Lines 640-659: _apply_provisioning_to_esim on the session's objects, the
\* activation event, and the commit that writes them by primary key.
ActivateCommit(w) ==
    /\ pc[w] = "act_commit"
    /\ LET l == loc[w]
           applied == ApplyToEsim(l.esim, l.result, l.item, ids.uuid)
           item == ApplyToInventory(l.item, applied)
       IN  /\ esims' = {IF e.id = applied.id THEN UpdatedEsim(e, l.esim, applied)
                        ELSE e : e \in esims}
           /\ inventory' = {r \in inventory : r.id # item.id} \cup {item}
           /\ events' = record_event(events, "esim_activated", l.order_id, 0)
           /\ ids' = [ids EXCEPT !.uuid = IF DrawsUuid(l.esim, l.result) THEN @ + 1 ELSE @]
    /\ pc' = [pc EXCEPT ![w] = "act_refresh"]
    /\ UNCHANGED <<orders, payments, invoices, loc, resp, budget, settings, plans>>

\* Lines 660-662: db.refresh(esim) and the response.
ActivateRefresh(w) ==
    /\ pc[w] = "act_refresh"
    /\ resp' = [resp EXCEPT ![w] = serialize_esim(EsimByOrder(loc[w].order_id))]
    /\ pc' = [pc EXCEPT ![w] = "idle"]
    /\ loc' = [loc EXCEPT ![w] = Idle]
    /\ UNCHANGED <<ledger, ids, budget, settings, plans>>

\* Order ids a request may name: the ledger's and one that is in no row.
RequestedOrders == {o.id : o \in orders} \cup {9}

Activate(w) ==
    \/ \E user \in Users, order_id \in RequestedOrders :
          ActivateBegin(w, user, order_id)
    \/ ActivateReserve(w)
    \/ ProvisionRaises(w)
    \/ ProviderConstructionRaises(w)
    \/ ProvisionReturns(w)
    \/ ActivateCommit(w)
    \/ ActivateRefresh(w)

(***************************************************************************)
(* serialize_order: what create_order and GET /api/orders/mine return      *)
(***************************************************************************)

LivePlanSnapshot(order) ==
    IF order.plan_id \in DOMAIN plans
    THEN _build_plan_snapshot(plans[order.plan_id], order.currency)
    ELSE order.plan_snapshot

\* serialize_order, lines 199-203: the snapshot stored with the order, and
\* the catalog's plan only for an order that has none.
StoredPlanSnapshot(order) ==
    IF DOMAIN order.plan_snapshot # {}
    THEN order.plan_snapshot
    ELSE IF order.plan_id \in DOMAIN plans
    THEN _build_plan_snapshot(plans[order.plan_id], order.currency)
    ELSE Null

serialize_order(order) ==
    [id |-> order.id, plan_id |-> order.plan_id, status |-> order.status,
     currency |-> order.currency,
     amount_minor_units |-> order.amount_minor_units,
     plan_snapshot |-> StoredPlanSnapshot(order)]

(***************************************************************************)
(* PUT and DELETE /api/admin/plans/{plan_id} (api/admin.py).  The admin's  *)
(* own response is not recorded.                                           *)
(***************************************************************************)

\* Country and carrier rows, by id.
CountryIds == {1, 2}
CarrierIds == {1, 2}

\* PlanUpdate bodies: a field left out is "" or 0 (the schema admits neither
\* as a value); sets_price tells whether price_usd is given.
PlanUpdates ==
    {[name |-> "", country_id |-> 0, carrier_id |-> 0,
      sets_price |-> TRUE, price_usd |-> 20000],
     [name |-> "Iberia 5GB", country_id |-> 2, carrier_id |-> 2,
      sets_price |-> FALSE, price_usd |-> 0],
     [name |-> "", country_id |-> 9, carrier_id |-> 0,
      sets_price |-> TRUE, price_usd |-> 20000],
     [name |-> "", country_id |-> 0, carrier_id |-> 0,
      sets_price |-> TRUE, price_usd |-> -1000]}

\* update_plan: 404 for an unknown plan, country or carrier, 400 for a
\* negative price, else the given fields are written and committed.
UpdatePlan(plan_id, payload) ==
    /\ budget.catalog > 0
    /\ budget' = [budget EXCEPT !.catalog = @ - 1]
    /\ IF plan_id \notin DOMAIN plans THEN UNCHANGED plans
       ELSE IF payload.country_id # 0 /\ payload.country_id \notin CountryIds
       THEN UNCHANGED plans
       ELSE IF payload.carrier_id # 0 /\ payload.carrier_id \notin CarrierIds
       THEN UNCHANGED plans
       ELSE IF payload.sets_price /\ payload.price_usd < 0
       THEN UNCHANGED plans
       ELSE plans' = [plans EXCEPT ![plan_id] =
                [@ EXCEPT
                   !.country_id = OrId(payload.country_id, @),
                   !.carrier_id = OrId(payload.carrier_id, @),
                   !.name = IF payload.name # "" THEN payload.name ELSE @,
                   !.price_usd = IF payload.sets_price THEN payload.price_usd ELSE @]]
    /\ UNCHANGED <<ledger, ids, pc, loc, resp, settings>>

\* Rows that refer to the plan through a foreign key.
PlanIsReferenced(plan_id) ==
    \/ \E o \in orders : o.plan_id = plan_id
    \/ \E e \in esims : e.plan_id = plan_id
    \/ \E r \in inventory : r.plan_id = plan_id

\* delete_plan: db.delete(plan); db.commit().  The handler does not look for
\* orders of the plan; a database that enforces the foreign keys refuses
\* the delete of a referenced plan, one that does not removes the row.
DeletePlan(plan_id) ==
    /\ budget.catalog > 0
    /\ budget' = [budget EXCEPT !.catalog = @ - 1]
    /\ IF plan_id \notin DOMAIN plans THEN UNCHANGED plans
       ELSE \/ plans' = [p \in DOMAIN plans \ {plan_id} |-> plans[p]]
            \/ PlanIsReferenced(plan_id) /\ UNCHANGED plans
    /\ UNCHANGED <<ledger, ids, pc, loc, resp, settings>>

(***************************************************************************)
(* Payment providers (services/payment_providers.py)                       *)
(***************************************************************************)

\* str.lower() on the status strings that occur.
Lower(status) ==
    CASE status = "SUCCEEDED" -> "succeeded"
      [] status = "FAILED" -> "failed"
      [] OTHER -> status

\* orders._map_payment_status
_map_payment_status(status) ==
    LET normalized == Lower(IF status = "" THEN "requires_action" ELSE status)
    IN  IF normalized = "succeeded" THEN "succeeded"
        ELSE IF normalized = "failed" THEN "failed"
        ELSE "requires_action"

\* StripePaymentProvider._normalize_status
_normalize_status(status) ==
    LET normalized == Lower(IF status = "" THEN "requires_action" ELSE status)
    IN  IF normalized = "succeeded" THEN "succeeded"
        ELSE IF normalized = "canceled" THEN "failed"
        ELSE "requires_action"

_status_from_object(event_type, status) == _normalize_status(status)

\* StripePaymentProvider._status_from_event
_status_from_event(event_type, status) ==
    IF event_type = "payment_intent.succeeded" THEN "succeeded"
    ELSE IF event_type \in {"payment_intent.payment_failed", "payment_intent.canceled"}
    THEN "failed"
    ELSE _normalize_status(status)

\* MockPaymentProvider.process_webhook: the intent id and status it returns.
MockProcessWebhook(payload) ==
    [intent_id |-> payload.intent_id,
     status |-> IF payload.status # "" THEN payload.status
                ELSE IF payload.action = "succeed" THEN "succeeded" ELSE "failed"]

\* StripePaymentProvider.process_webhook
StripeProcessWebhook(payload) ==
    [intent_id |-> payload.intent_id,
     status |-> _status_from_event(payload.type, payload.status)]

\* PaymentProviderEnum[...] and get_payment_provider: "ok" or the reason the
\* handler answers 400.
ResolveProvider(provider_name) ==
    IF provider_name = "STRIPE"
    THEN IF settings.STRIPE_SECRET_KEY = Null THEN "not_configured" ELSE "ok"
    ELSE IF provider_name = "MOCK" THEN "ok"
    ELSE "unknown"

(***************************************************************************)
(* Reconciliation helpers (api/orders.py, services/billing.py)             *)
(***************************************************************************)

OrderStatusKept(current, payment_status) == current

\* _update_order_status_from_payment: the order's status afterwards.
OrderStatusAfter(current, payment_status) ==
    IF payment_status = "succeeded" THEN "paid"
    ELSE IF payment_status = "failed" THEN "failed"
    ELSE current

\* _generate_invoice_number: f"{prefix}-{order.id:06d}"
_generate_invoice_number(order_id) == <<"TRB", order_id>>

InvoiceNumberNotUnique(number) == FALSE

\* The unique index on invoices.invoice_number.
InvoiceNumberTaken(number) == \E i \in invoices : i.invoice_number = number

\* Lines 547-551 (webhook; create_payment has no previous status).
RecordsSuccess(previous_status, payment_status) ==
    payment_status = "succeeded" /\ previous_status # "succeeded"

\* Rows a worker's flushed, uncommitted transaction holds locks on.
HoldsRowLocks(v) == pc[v] = "pay_commit" /\ loc[v].flushed

RowsLockedByOthers(w, order_id, payment_id) ==
    \E v \in Workers \ {w} :
        /\ HoldsRowLocks(v)
        /\ \/ loc[v].order_id = order_id
           \/ (payment_id # 0 /\ loc[v].payment_id = payment_id)

PayFails(w, op, code) ==
    /\ pc' = [pc EXCEPT ![w] = "idle"]
    /\ loc' = [loc EXCEPT ![w] = Idle]
    /\ resp' = [resp EXCEPT ![w] = [code |-> code, op |-> op]]

\* What both handlers do after the provider call: whether the invoice has to
\* be inserted (generate_invoice_for_order found none in its snapshot).
\* provider is the Payment row's provider, handler_provider the one the
\* handler obtained from get_payment_provider.
Reconcile(w, op, order_id, payment_id, provider, handler_provider, intent, previous_status) ==
    LET payment_status == _map_payment_status(intent.status)
        existing == {i \in invoices : i.order_id = order_id}
    IN  /\ loc' = [loc EXCEPT ![w] =
              [op |-> op, order_id |-> order_id, payment_id |-> payment_id,
               provider |-> provider, handler_provider |-> handler_provider,
               intent_id |-> intent.intent_id,
               intent_status |-> intent.status,
               payment_status |-> payment_status,
               previous_status |-> previous_status,
               order_status |-> OrderById(order_id).status,
               insert_invoice |-> (payment_status = "succeeded" /\ existing = {}),
               flushed |-> FALSE, poisoned |-> FALSE]]
        /\ pc' = [pc EXCEPT ![w] =
              IF payment_status = "succeeded" /\ existing = {}
              THEN "pay_flush" ELSE "pay_commit"]
        /\ resp' = [resp EXCEPT ![w] = NoResp]

(***************************************************************************)
(* POST /api/payments/create                                               *)
(***************************************************************************)

\* Lines 431-466: the order lookup, the provider, the intent.  The mock
\* provider answers requires_action; Stripe's answer is normalized.
CreatePaymentBegin(w, user, order_id, provider, stripe_status) ==
    /\ pc[w] = "idle"
    /\ budget.payments > 0
    /\ budget' = [budget EXCEPT !.payments = @ - 1]
    /\ LET provider_name == IF provider = "" THEN settings.PAYMENT_PROVIDER ELSE provider
           found == OwnedOrders(user, order_id)
       IN  IF found = {}
           THEN PayFails(w, "create_payment", 404) /\ UNCHANGED ids
           ELSE IF provider_name \notin {"STRIPE", "MERCADO_PAGO", "MOCK"}
                   \/ ResolveProvider(provider_name) # "ok"
           THEN PayFails(w, "create_payment", 400) /\ UNCHANGED ids
           ELSE LET intent ==
                        IF provider_name = "MOCK"
                        THEN [intent_id |-> <<"mock_intent", ids.uuid>>,
                              status |-> "requires_action"]
                        ELSE [intent_id |-> <<"pi", ids.uuid>>,
                              status |-> _normalize_status(stripe_status)]
                IN  /\ Reconcile(w, "create_payment", order_id, 0, provider_name,
                                 provider_name, intent, "")
                    /\ ids' = [ids EXCEPT !.uuid = @ + 1]
    /\ UNCHANGED <<ledger, settings, plans>>

(***************************************************************************)
(* POST /api/payments/webhook                                              *)
(***************************************************************************)

\* parse_webhook_payload: "ok", "invalid" (PaymentWebhookValidationError) or
\* "error" (ValueError).  Stripe verifies the signature header against its
\* webhook secret; the base parser, which the mock provider inherits,
\* drops the headers and decodes the body.
parse_webhook_payload(provider_name, signed) ==
    IF provider_name = "STRIPE"
    THEN IF settings.STRIPE_WEBHOOK_SECRET = Null THEN "error"
         ELSE IF ~signed THEN "invalid"
         ELSE "ok"
    ELSE "ok"

\* Lines 507-537: the provider, the payload validation, the payment lookup
\* and the statuses.  signed tells whether the request carries a signature
\* header that verifies against the body.
PaymentWebhookBegin(w, provider, signed, payload) ==
    /\ pc[w] = "idle"
    /\ budget.payments > 0
    /\ budget' = [budget EXCEPT !.payments = @ - 1]
    /\ LET provider_name == IF provider = "" THEN settings.PAYMENT_PROVIDER ELSE provider
       IN  IF ResolveProvider(provider_name) # "ok"
           THEN PayFails(w, "webhook", 400)
           ELSE IF parse_webhook_payload(provider_name, signed) = "error"
           THEN PayFails(w, "webhook", 500)
           ELSE IF parse_webhook_payload(provider_name, signed) = "invalid"
           THEN PayFails(w, "webhook", 400)
           ELSE LET intent == IF provider_name = "STRIPE"
                              THEN StripeProcessWebhook(payload)
                              ELSE MockProcessWebhook(payload)
                    found == {p \in payments : p.intent_id = intent.intent_id}
                IN  IF intent.intent_id = Null THEN PayFails(w, "webhook", 400)
                    ELSE IF found = {} THEN PayFails(w, "webhook", 404)
                    ELSE LET payment == CHOOSE p \in found : TRUE
                         IN  Reconcile(w, "webhook", payment.order_id, payment.id,
                                       payment.provider, provider_name, intent,
                                       payment.status)
    /\ UNCHANGED <<ledger, ids, settings, plans>>

(***************************************************************************)
(* Both handlers: invoice, commit                                          *)
(***************************************************************************)

\* billing.py lines 40-57 inside _maybe_issue_invoice: db.add(invoice);
\* db.flush().  The flush writes the session's pending rows, so it waits
\* for row locks and is checked against the unique invoice number; an
\* IntegrityError is caught and logged, and leaves the session unusable.
IssueInvoiceFlush(w) ==
    /\ pc[w] = "pay_flush"
    /\ ~RowsLockedByOthers(w, loc[w].order_id, loc[w].payment_id)
    /\ IF InvoiceNumberTaken(_generate_invoice_number(loc[w].order_id))
       THEN loc' = [loc EXCEPT ![w].poisoned = TRUE]
       ELSE loc' = [loc EXCEPT ![w].flushed = TRUE]
    /\ pc' = [pc EXCEPT ![w] = "pay_commit"]
    /\ UNCHANGED <<ledger, ids, resp, budget, settings, plans>>

\* Lines 468-483 and 538-555: the statuses, the event, db.commit().
PaymentCommit(w) ==
    /\ pc[w] = "pay_commit"
    /\ LET l == loc[w]
       IN  IF l.poisoned
           THEN \* db.commit() raises on the rolled-back session
                /\ PayFails(w, l.op, 500)
                /\ UNCHANGED <<ledger, ids>>
           ELSE /\ ~RowsLockedByOthers(w, l.order_id, l.payment_id)
                /\ LET payment_id == IF l.op = "create_payment" THEN ids.payment
                                     ELSE l.payment_id
                       row == [id |-> payment_id, order_id |-> l.order_id,
                               provider |-> l.provider, status |-> l.payment_status,
                               intent_id |-> l.intent_id]
                       order_status == OrderStatusAfter(l.order_status, l.payment_status)
                   IN  \* the UPDATEs carry the columns whose value differs from
                       \* the one the session loaded
                       /\ payments' =
                             IF l.op = "create_payment" THEN payments \cup {row}
                             ELSE {IF p.id = payment_id /\ l.payment_status # l.previous_status
                                   THEN [p EXCEPT !.status = l.payment_status]
                                   ELSE p : p \in payments}
                       /\ orders' = {IF o.id = l.order_id /\ order_status # l.order_status
                                     THEN [o EXCEPT !.status = order_status]
                                     ELSE o : o \in orders}
                       /\ invoices' = IF l.insert_invoice
                                      THEN invoices \cup
                                           {[id |-> ids.invoice, order_id |-> l.order_id,
                                             invoice_number |->
                                                 _generate_invoice_number(l.order_id)]}
                                      ELSE invoices
                       /\ events' = IF RecordsSuccess(l.previous_status, l.payment_status)
                                    THEN record_event(events, "payment_succeeded",
                                                      l.order_id, payment_id)
                                    ELSE events
                       /\ ids' = [ids EXCEPT
                                    !.payment = IF l.op = "create_payment" THEN @ + 1 ELSE @,
                                    !.invoice = IF l.insert_invoice THEN @ + 1 ELSE @]
                       /\ resp' = [resp EXCEPT ![w] =
                             [code |-> 200, op |-> l.op,
                              intent_status |-> l.intent_status]]
                       /\ pc' = [pc EXCEPT ![w] = "idle"]
                       /\ loc' = [loc EXCEPT ![w] = Idle]
                /\ UNCHANGED <<esims, inventory>>
    /\ UNCHANGED <<budget, settings, plans>>

\* Intent ids a webhook may name: those of the ledger's payments, one no
\* payment has, and none.
WebhookIntentIds == {p.intent_id : p \in payments} \cup {<<"pi", 0>>, Null}

MockPayloads ==
    {[intent_id |-> i, status |-> st, action |-> "succeed"] :
        i \in WebhookIntentIds,
        st \in {"", "succeeded", "failed", "requires_action", "SUCCEEDED"}}
    \cup {[intent_id |-> i, status |-> "", action |-> "fail"] : i \in WebhookIntentIds}

StripeEventTypes ==
    {"payment_intent.succeeded", "payment_intent.payment_failed",
     "payment_intent.canceled", "payment_intent.processing"}

\* The object's own status decides only for the event types that do not.
StripePayloads ==
    {[intent_id |-> i, type |-> t, status |-> "processing"] :
        i \in WebhookIntentIds, t \in StripeEventTypes}
    \cup {[intent_id |-> i, type |-> "payment_intent.processing", status |-> st] :
            i \in WebhookIntentIds, st \in {"succeeded", "canceled"}}

CreatePayment(w) ==
    \E user \in Users, order_id \in RequestedOrders :
        \/ \E provider \in {"", "MOCK", "PAYPAL"} :
              CreatePaymentBegin(w, user, order_id, provider, "")
        \/ \E stripe_status \in {"requires_payment_method", "succeeded", "canceled"} :
              CreatePaymentBegin(w, user, order_id, "STRIPE", stripe_status)

PaymentWebhook(w) ==
    \/ \E provider \in {"", "MOCK", "PAYPAL"}, signed \in BOOLEAN,
          payload \in MockPayloads :
          PaymentWebhookBegin(w, provider, signed, payload)
    \/ \E payload \in StripePayloads :
          PaymentWebhookBegin(w, "STRIPE", TRUE, payload)
    \/ \E payload \in StripePayloads :
          /\ payload.type = "payment_intent.succeeded"
          /\ PaymentWebhookBegin(w, "STRIPE", FALSE, payload)

(***************************************************************************)
(* Properties of order creation                                            *)
(***************************************************************************)

\* The orders a user created earlier under an idempotency key, by the key
\* the client sent (not by the stored, normalized column).
PriorOrders(user, key) ==
    {o \in orders : key # << >> /\ o.user_id = user /\ o.request_key = key}

IsReplay(r) == r.code = 200 /\ r.op = "create_order" /\ r.replay

\* C1: create_order answers with an existing order exactly when the same
\* user created an order under the same key before; the replay returns that
\* order's id and leaves the ledger untouched whatever plan or currency it
\* names.  Any other request (another user, another key, no key) for a known
\* plan goes on to insert, and its commit adds exactly one Order, one
\* EsimProfile and one checkout event; an insert is refused only when the
\* same user's same key was committed in the meantime.
C1_IdempotentCreate ==
    [][\A w \in Workers :
        /\ \A user \in Users, plan_id \in RequestedPlans,
              currency \in Currencies, key \in Keys :
              CreateOrderBegin(w, user, plan_id, currency, key) =>
                 /\ IsReplay(resp'[w]) <=> PriorOrders(user, key) # {}
                 /\ IsReplay(resp'[w]) =>
                       /\ resp'[w].id \in {o.id : o \in PriorOrders(user, key)}
                       /\ ledger' = ledger
                 /\ (PriorOrders(user, key) = {} /\ plan_id \in PlanIds) =>
                       pc'[w] = "co_flush"
        /\ CreateOrderFlush(w) =>
              (resp'[w].code = 500 <=> PriorOrders(loc[w].user, loc[w].key) # {})
        /\ CreateOrderCommit(w) =>
              /\ Cardinality(orders') = Cardinality(orders) + 1
              /\ Cardinality(esims') = Cardinality(esims) + 1
              /\ Cardinality(events') = Cardinality(events) + 1
              /\ resp'[w].code = 200 /\ ~resp'[w].replay
              /\ \E o \in orders' \ orders :
                    /\ o.id = resp'[w].id
                    /\ o.user_id = loc[w].user /\ o.request_key = loc[w].key
                    /\ \E e \in esims' \ esims : e.order_id = o.id
    ]_vars

\* C1 witness: a request carrying a key was answered with the order created
\* earlier under that key.
C1_Witness ==
    \E w \in Workers :
        /\ IsReplay(resp[w])
        /\ \E o \in orders : o.id = resp[w].id /\ o.request_key # << >>

\* C2: however two create_order requests with the same (user, key)
\* interleave, the committed ledger holds at most one Order for that pair,
\* and every committed Order has exactly one EsimProfile.
C2_OneOrderPerUserKey ==
    /\ \A o1, o2 \in orders :
          (o1.user_id = o2.user_id /\ o1.request_key = o2.request_key
              /\ o1.request_key # << >>) => o1 = o2
    /\ \A o \in orders : Cardinality({e \in esims : e.order_id = o.id}) = 1
    /\ \A e \in esims : \E o \in orders : o.id = e.order_id

\* C2 witness: two requests for the same (user, key) both passed the lookup;
\* one committed its order and the other, still to insert, meets the unique
\* index.
C2_Witness ==
    \E w, v \in Workers :
        /\ w # v
        /\ pc[w] = "co_flush" /\ OrderKeyTaken(loc[w].normalized_key)
        /\ resp[v].code = 200 /\ resp[v].op = "create_order" /\ ~resp[v].replay
        /\ OrderById(resp[v].id).idempotency_key = loc[w].normalized_key

\* C14: create_order commits an Order together with exactly one EsimProfile,
\* pending activation and without an activation code; the ledger never holds
\* an order without its profile or a profile without its order, and a
\* create_order that fails (refused by the unique index, or failing at the
\* commit after its order was flushed) leaves neither.
C14_OrderCommittedWithItsProfile ==
    [][/\ \A o \in orders' \ orders :
             /\ Cardinality({e \in esims' : e.order_id = o.id}) = 1
             /\ \E e \in esims' \ esims :
                   /\ e.order_id = o.id
                   /\ e.status = "pending_activation"
                   /\ e.activation_code = Null
       /\ \A e \in esims' \ esims : \E o \in orders' \ orders : o.id = e.order_id
       /\ \A o \in orders' : \E e \in esims' : e.order_id = o.id
       /\ \A e \in esims' : \E o \in orders' : o.id = e.order_id
       /\ \A w \in Workers :
             (resp'[w] # resp[w]
                 /\ resp'[w] = [code |-> 500, op |-> "create_order"]) =>
                (orders' = orders /\ esims' = esims)
      ]_vars

\* C14 witness: a create_order failed after its order row was flushed (the
\* id it took is spent), beside a committed order that has its profile.
C14_Witness ==
    /\ \E w \in Workers : resp[w].code = 500 /\ resp[w].op = "create_order"
    /\ \A w \in Workers : pc[w] # "co_commit"
    /\ orders # {}
    /\ ids.order - 1 > Cardinality(orders)

(***************************************************************************)
(* Properties of activation                                                *)
(***************************************************************************)

IsActivated(r) == r.code = 200 /\ r.op = "activate"

\* C3: no inventory row is handed to two callers: no two in-flight
\* activations hold the same reserved row, and no row is linked from more
\* than one EsimProfile.
C3_NoDoubleAssignment ==
    /\ \A w, v \in Workers :
          (w # v /\ pc[w] = "act_commit" /\ pc[v] = "act_commit"
              /\ loc[w].from_inventory /\ loc[v].from_inventory)
          => loc[w].item.id # loc[v].item.id
    /\ \A e1, e2 \in esims :
          (e1.inventory_item_id # 0 /\ e1.inventory_item_id = e2.inventory_item_id)
          => e1 = e2

\* C3 witness: two activations for distinct orders hold reserved rows at the
\* same time (the second skipped the row the first has locked).
C3_Witness ==
    \E w, v \in Workers :
        /\ w # v /\ pc[w] = "act_commit" /\ pc[v] = "act_commit"
        /\ loc[w].from_inventory /\ loc[v].from_inventory
        /\ loc[w].order_id # loc[v].order_id
        /\ loc[w].plan_id = loc[v].plan_id

\* C4: for one paid order the profile is finalized exactly once, whatever
\* the interleaving of activate calls: one activation commit per order (one
\* esim_activated event, so one row reserved or materialized), and all
\* successful responses for the order carry the same activation_code and
\* iccid.
C4_FinalizedOnce ==
    /\ \A o \in orders :
          Cardinality(EventsOf(events, "esim_activated", o.id, 0)) <= 1
    /\ \A w, v \in Workers :
          (IsActivated(resp[w]) /\ IsActivated(resp[v])
              /\ resp[w].order_id = resp[v].order_id)
          => /\ resp[w].activation_code = resp[v].activation_code
             /\ resp[w].iccid = resp[v].iccid

\* C5: activate on an already provisioned profile returns the codes of the
\* earlier successful calls for that order and changes nothing: the ledger
\* and the id and uuid counters stay as they are and the call ends at once.
C5_ReactivationReturnsFirstResult ==
    [][\A w \in Workers, user \in Users, order_id \in {o.id : o \in orders} :
        (/\ ActivateBegin(w, user, order_id)
         /\ \E o \in orders : o.id = order_id /\ o.user_id = user /\ o.status = "paid"
         /\ AlreadyProvisioned(EsimByOrder(order_id)))
        => /\ ledger' = ledger /\ ids' = ids
           /\ pc'[w] = "idle"
           /\ IsActivated(resp'[w])
           /\ resp'[w].activation_code = EsimByOrder(order_id).activation_code
           /\ \A v \in Workers :
                 (IsActivated(resp[v]) /\ resp[v].order_id = order_id)
                 => /\ resp'[w].activation_code = resp[v].activation_code
                    /\ resp'[w].iccid = resp[v].iccid
    ]_vars

InvoicesOf(inv, order_id) == {i \in inv : i.order_id = order_id}

IsSuccessDelivery(w) ==
    loc[w].op = "webhook" /\ loc[w].payment_status = "succeeded"

\* C6: however many times the success webhook of an intent is delivered, one
\* after another or at the same time, the order has exactly one Invoice once
\* a delivery has been processed, no order ever has two, and no step changes
\* an order's amount_minor_units or currency.
C6_OneInvoicePerOrder ==
    [][/\ \A o \in orders' : Cardinality(InvoicesOf(invoices', o.id)) <= 1
       /\ \A o \in orders : \E n \in orders' :
             /\ n.id = o.id
             /\ n.amount_minor_units = o.amount_minor_units
             /\ n.currency = o.currency
       /\ \A w \in Workers :
             (PaymentCommit(w) /\ IsSuccessDelivery(w) /\ resp'[w].code = 200)
             => Cardinality(InvoicesOf(invoices', loc[w].order_id)) = 1
    ]_vars

\* C6 witness: two deliveries of a success webhook ran at the same time; one
\* was processed, the other lost the insert of the invoice number and was
\* answered 500, and the order has its one invoice.
C6_Witness ==
    \E w, v \in Workers :
        /\ w # v
        /\ resp[w].code = 500 /\ resp[w].op = "webhook"
        /\ resp[v].code = 200 /\ resp[v].op = "webhook"
        /\ resp[v].intent_status = "succeeded"
        /\ \E o \in orders : Cardinality(InvoicesOf(invoices, o.id)) = 1

\* C7: over any sequence of webhook deliveries at most one payment-succeeded
\* event exists per payment.
C7_OneSuccessEventPerPayment ==
    \A p \in payments :
        Cardinality(EventsOf(events, "payment_succeeded", p.order_id, p.id)) <= 1

\* C8: no webhook delivery moves a SUCCEEDED Payment to FAILED or
\* REQUIRES_ACTION, and none moves a PAID Order to FAILED.
C8_NoBackwardTransition ==
    [][/\ \A p \in payments, n \in payments' :
             (n.id = p.id /\ p.status = "succeeded") => n.status = "succeeded"
       /\ \A o \in orders, n \in orders' :
             (n.id = o.id /\ o.status = "paid") => n.status # "failed"
    ]_vars

\* C9: no webhook delivery changes a REFUNDED Order to PAID.
C9_RefundedStaysRefunded ==
    [][\A o \in orders, n \in orders' :
          (n.id = o.id /\ o.status = "refunded") => n.status # "paid"
    ]_vars

\* C12: a webhook whose signature is missing or invalid is rejected with a
\* validation error (400), whatever the provider, before process_webhook
\* runs and before any Payment or Order is changed.
C12_UnsignedWebhookRejected ==
    [][\A w \in Workers :
        /\ \A provider \in {"", "MOCK", "PAYPAL"}, payload \in MockPayloads :
              PaymentWebhookBegin(w, provider, FALSE, payload) =>
                 (resp'[w] = [code |-> 400, op |-> "webhook"] /\ pc'[w] = "idle")
        /\ \A payload \in StripePayloads :
              PaymentWebhookBegin(w, "STRIPE", FALSE, payload) =>
                 (resp'[w] = [code |-> 400, op |-> "webhook"] /\ pc'[w] = "idle")
    ]_vars

\* C19: every status a provider returns from create_intent or
\* process_webhook is one of requires_action, succeeded, failed: neither the
\* intent a handler holds after the provider call nor the intent_status of
\* a 200 response carries any other string.
C19_ProviderStatusNormalized ==
    \A w \in Workers :
        /\ pc[w] \in {"pay_flush", "pay_commit"} =>
              loc[w].intent_status \in {"requires_action", "succeeded", "failed"}
        /\ (resp[w].code = 200 /\ resp[w].op \in {"create_payment", "webhook"}) =>
              resp[w].intent_status \in {"requires_action", "succeeded", "failed"}

(***************************************************************************)
(* Properties of checkout: payments and activation together                *)
(***************************************************************************)

\* C11: activate on the caller's own order answers 400 and changes nothing
\* unless the order is PAID when the call reads it; an activation goes on
\* to reserve only from a PAID order, and a profile becomes ACTIVE only by
\* the commit of such an activation.
C11_ActivateRequiresPaid ==
    [][/\ \A w \in Workers, user \in Users, order_id \in RequestedOrders :
             (ActivateBegin(w, user, order_id) /\ OwnedOrders(user, order_id) # {}) =>
                LET order == CHOOSE o \in OwnedOrders(user, order_id) : TRUE
                IN  /\ order.status # "paid" =>
                          /\ resp'[w] = [code |-> 400, op |-> "activate"]
                          /\ ledger' = ledger /\ ids' = ids
                          /\ pc'[w] = "idle"
                    /\ pc'[w] = "act_reserve" => order.status = "paid"
       /\ \A e \in esims, n \in esims' :
             (n.id = e.id /\ e.status # "active" /\ n.status = "active") =>
                \E w \in Workers :
                    /\ pc[w] = "act_commit" /\ pc'[w] = "act_refresh"
                    /\ loc[w].order_id = e.order_id
    ]_vars

\* C11 witness: an activation was answered 400 while an order that is not
\* PAID still has its profile PENDING_ACTIVATION.
C11_Witness ==
    \E w \in Workers :
        /\ resp[w] = [code |-> 400, op |-> "activate"]
        /\ \E o \in orders :
              o.status # "paid" /\ EsimByOrder(o.id).status = "pending_activation"

IsOthersOrder(user, order_id) ==
    \E o \in orders : o.id = order_id /\ o.user_id # user

\* C13: activate and create_payment by a user who does not own the order
\* answer 404 at once and leave orders, payments, profiles, inventory and
\* everything else in the ledger unchanged; every activation or payment in
\* flight is for an order of the user who sent it.
C13_ForeignOrderNotFound ==
    [][\A w \in Workers, user \in Users, order_id \in RequestedOrders :
        IsOthersOrder(user, order_id) =>
           /\ ActivateBegin(w, user, order_id) =>
                 /\ resp'[w] = [code |-> 404, op |-> "activate"]
                 /\ pc'[w] = "idle"
                 /\ ledger' = ledger /\ ids' = ids
           /\ \A provider \in {"", "MOCK", "STRIPE", "PAYPAL"} :
                 CreatePaymentBegin(w, user, order_id, provider, "") =>
                    /\ resp'[w] = [code |-> 404, op |-> "create_payment"]
                    /\ pc'[w] = "idle"
                    /\ ledger' = ledger /\ ids' = ids
    ]_vars

\* C13 witness: an activation for an existing order was answered 404 (every
\* order a request names here exists and has its profile, so the caller
\* was not its owner).
C13_Witness ==
    \E w \in Workers :
        /\ resp[w] = [code |-> 404, op |-> "activate"]
        /\ \A o \in orders : \E e \in esims : e.order_id = o.id

(***************************************************************************)
(* Properties of the inventory pool                                        *)
(***************************************************************************)

\* The order each concurrent session activates, and its owner: one order per
\* session, so that the activations are for distinct orders.
OwnOrder(w) == IF w = "w1" THEN 1 ELSE 2

\* Rows of the pre-stocked pool: still AVAILABLE, or stamped by
\* reserve_inventory_item (materialized rows carry no reserved_at).
PoolRows == {r \in inventory : r.status = "available" \/ r.reserved_at # Null}

\* Sessions whose activation has been answered.
Answered == {w \in Workers : resp[w] # NoResp}

ServedFromPool ==
    {w \in Answered :
        /\ resp[w].code = 200
        /\ \E r \in PoolRows : r.id = resp[w].inventory_item_id}

ServedByFallback ==
    {w \in Answered :
        /\ resp[w].code = 200
        /\ \E r \in inventory \ PoolRows : r.id = resp[w].inventory_item_id}

AnsweredForPlan(plan_id) ==
    {w \in Answered : OrderById(OwnOrder(w)).plan_id = plan_id}

PoolSize(plan_id) == Cardinality({r \in PoolRows : r.plan_id = plan_id})

AllAnswered == \A w \in Workers : pc[w] = "idle"

\* C15, as stated: once N concurrent activations for distinct paid orders of
\* one plan have run against M < N AVAILABLE rows of that plan, all N have
\* succeeded, exactly M of them from inventory and N - M from the fallback
\* provider, and no AVAILABLE row of the plan is left.
C15_AllSucceedPoolFirst ==
    AllAnswered =>
       \A plan_id \in PlanIds :
          LET callers == AnsweredForPlan(plan_id)
              M == PoolSize(plan_id)
              N == Cardinality(callers)
          IN  M < N =>
                 /\ \A w \in callers : resp[w].code = 200
                 /\ Cardinality(callers \cap ServedFromPool) = M
                 /\ Cardinality(callers \cap ServedByFallback) = N - M
                 /\ ~\E r \in inventory :
                        r.plan_id = plan_id /\ r.status = "available"

\* C15, amended: once N concurrent activations for distinct paid orders of
\* one plan have run against M < N AVAILABLE rows of that plan, exactly M of
\* them were served from inventory and no AVAILABLE row of the plan is left;
\* each of the other N - M went to the fallback provider and either
\* succeeded with a materialized row or failed because the provider did
\* (502 from the live partner call, 500 from a misconfigured provider).
\* With the local provider all N succeed.
C15_PoolFirstThenFallback ==
    AllAnswered =>
       \A plan_id \in PlanIds :
          LET callers == AnsweredForPlan(plan_id)
              M == PoolSize(plan_id)
              N == Cardinality(callers)
          IN  M < N =>
                 /\ Cardinality(callers \cap ServedFromPool) = M
                 /\ ~\E r \in inventory :
                        r.plan_id = plan_id /\ r.status = "available"
                 /\ \A w \in callers \ ServedFromPool :
                        \/ w \in ServedByFallback
                        \/ /\ resp[w].code = 502
                           /\ settings.ESIM_PROVIDER = "CONNECTED_YOU"
                           /\ ~settings.CONNECTED_YOU_DRY_RUN
                        \/ /\ resp[w].code = 500
                           /\ ProviderMisconfigured
                 /\ settings.ESIM_PROVIDER = "LOCAL" =>
                        Cardinality(callers \cap ServedByFallback) = N - M

\* C15 witness: two activations ran against one row of their plan; one was
\* served from the pool and the other by the fallback provider.
C15_Witness ==
    /\ AllAnswered
    /\ \E plan_id \in PlanIds :
          /\ PoolSize(plan_id) = 1
          /\ Cardinality(AnsweredForPlan(plan_id)) = 2
          /\ Cardinality(AnsweredForPlan(plan_id) \cap ServedFromPool) = 1
          /\ Cardinality(AnsweredForPlan(plan_id) \cap ServedByFallback) = 1

\* Matching AVAILABLE rows of the committed table, locked or not.
MatchingAvailable(w) ==
    {row \in inventory :
        /\ row.status = "available"
        /\ MatchesFilter(row, loc[w].plan_id, loc[w].country_id, loc[w].carrier_id)}

\* The AVAILABLE rows of the committed table that carry the most specific
\* tag session w asks for: its plan id if it has one, else its country id,
\* else its carrier id, else any.
AvailableForRequest(w) ==
    {row \in inventory :
        /\ row.status = "available"
        /\ \/ loc[w].plan_id # 0 /\ row.plan_id = loc[w].plan_id
           \/ loc[w].plan_id = 0 /\ loc[w].country_id # 0
                 /\ row.country_id = loc[w].country_id
           \/ loc[w].plan_id = 0 /\ loc[w].country_id = 0 /\ loc[w].carrier_id # 0
                 /\ row.carrier_id = loc[w].carrier_id
           \/ loc[w].plan_id = 0 /\ loc[w].country_id = 0 /\ loc[w].carrier_id = 0}

\* Those of them no other session's uncommitted reservation has locked.
FreeForRequest(w) ==
    {row \in AvailableForRequest(w) :
        \A v \in Workers \ {w} :
            ~(pc[v] = "act_commit" /\ loc[v].from_inventory /\ loc[v].item.id = row.id)}

\* Session w's reserve step handed it the lowest-id row of rows, marked
\* RESERVED with a reservation timestamp, or nothing when rows is empty.
ReserveReturnsFirstOf(w, rows) ==
    IF rows = {}
    THEN pc'[w] = "act_provision" /\ loc'[w] = loc[w]
    ELSE /\ pc'[w] = "act_commit"
         /\ loc'[w].from_inventory
         /\ \E row \in rows :
               /\ \A q \in rows : row.id <= q.id
               /\ loc'[w].item = [row EXCEPT !.status = "reserved",
                                             !.reserved_at = Now]

\* C24 as stated: reserve returns the lowest-id AVAILABLE row matching the
\* most specific filter supplied, marked RESERVED with a reservation
\* timestamp, and returns nothing exactly when no AVAILABLE row matches.
C24_ReserveReturnsOldestAvailable ==
    [][\A w \in Workers :
          ActivateReserve(w) => ReserveReturnsFirstOf(w, AvailableForRequest(w))
      ]_vars

\* C24, amended: reserve returns the lowest-id row among the AVAILABLE rows
\* matching the most specific filter supplied that no concurrent
\* reservation holds locked, marked RESERVED with a reservation timestamp,
\* and returns nothing exactly when there is no such row; a row in
\* RESERVED, ASSIGNED or RETIRED status is never returned.
C24_ReserveReturnsOldestUnlocked ==
    [][\A w \in Workers :
          ActivateReserve(w) =>
             /\ ReserveReturnsFirstOf(w, FreeForRequest(w))
             /\ pc'[w] = "act_commit" =>
                   \E row \in inventory :
                       row.id = loc'[w].item.id /\ row.status = "available"
      ]_vars

\* C24 witness: a session reserved the second row of its plan while the
\* first, still AVAILABLE in the table, is held by another session.
C24_Witness ==
    \E w, v \in Workers :
        /\ w # v
        /\ pc[w] = "act_commit" /\ loc[w].from_inventory
        /\ pc[v] = "act_commit" /\ loc[v].from_inventory
        /\ loc[v].item.id < loc[w].item.id
        /\ loc[w].item.status = "reserved" /\ loc[w].item.reserved_at = Now
        /\ \E row \in inventory : row.id = loc[v].item.id /\ row.status = "available"

\* C16: reserve never waits.  A session about to reserve can always take its
\* step, whatever rows other sessions hold; when its matching AVAILABLE rows
\* are all locked by concurrent reservations, or there is none, the step
\* hands it no row, changes nothing and sends it to the fallback provider;
\* and an activation under way always has a step it can take (none is
\* blocked behind, or deadlocked with, another).
C16_ReserveNeverWaits ==
    /\ [](\A w \in Workers :
            /\ pc[w] = "act_reserve" => ENABLED ActivateReserve(w)
            /\ pc[w] # "idle" => ENABLED Activate(w))
    /\ [][\A w \in Workers :
            (ActivateReserve(w) /\ MatchingAvailable(w) \subseteq
                 {r \in inventory : r.id \in LockedInventory(w)}) =>
               /\ pc'[w] = "act_provision"
               /\ loc'[w] = loc[w]
               /\ ledger' = ledger
         ]_vars

\* C16 witness: a session went on to the fallback provider while the only
\* matching AVAILABLE row is locked by another order's reservation.
C16_Witness ==
    \E w, v \in Workers :
        /\ pc[w] = "act_provision"
        /\ pc[v] = "act_commit" /\ loc[v].from_inventory
        /\ loc[v].order_id # loc[w].order_id
        /\ MatchingAvailable(w) # {}
        /\ \A r \in MatchingAvailable(w) : r.id = loc[v].item.id

\* The order of class EsimInventoryStatus.
StatusRank(status) ==
    CASE status = "available" -> 1
      [] status = "reserved" -> 2
      [] status = "assigned" -> 3
      [] OTHER -> 4

InventoryById(rows, id) == CHOOSE r \in rows : r.id = id

\* C17: an inventory row's status only moves forward along AVAILABLE,
\* RESERVED, ASSIGNED.  No step removes a row or lowers its stored status;
\* reserve marks RESERVED only a row that is AVAILABLE (so never one that is
\* ASSIGNED); and the commit of an activation, of a reserved or of a
\* materialized row, stores ASSIGNED, never a status before the one the
\* session held.
C17_InventoryStatusForward ==
    [][/\ \A r \in inventory :
             \E q \in inventory' :
                q.id = r.id /\ StatusRank(q.status) >= StatusRank(r.status)
       /\ \A w \in Workers :
             (ActivateReserve(w) /\ loc'[w].from_inventory) =>
                /\ loc'[w].item.status = "reserved"
                /\ InventoryById(inventory, loc'[w].item.id).status = "available"
       /\ \A w \in Workers :
             ActivateCommit(w) =>
                LET stored == InventoryById(inventory', loc[w].item.id)
                IN  /\ stored.status = "assigned"
                    /\ StatusRank(stored.status) >= StatusRank(loc[w].item.status)
      ]_vars

\* C17 witness: one row went AVAILABLE, RESERVED, ASSIGNED and a second one
\* is RESERVED in a session that has not committed yet.
C17_Witness ==
    /\ \E r \in inventory : r.status = "assigned" /\ r.reserved_at # Null
    /\ \E w \in Workers :
          /\ pc[w] = "act_commit" /\ loc[w].from_inventory
          /\ loc[w].item.status = "reserved"

\* The inventory rows a profile's inventory_item_id refers to.
AttachedRows(esim) == {r \in inventory : r.id = esim.inventory_item_id}

ExactlyOneAssignedRow(esim) ==
    /\ esim.inventory_item_id # 0
    /\ Cardinality(AttachedRows(esim)) = 1
    /\ \A r \in AttachedRows(esim) : r.status = "assigned"

\* C18: every successful activation ends with exactly one inventory record
\* attached.  Whenever activate has answered 200 for an order, and whenever
\* a profile is ACTIVE, the profile's inventory_item_id refers to exactly
\* one inventory row, that row is ASSIGNED, and it is the row the response
\* names, whether it was reserved from the pool or materialized.
C18_OneInventoryRecordAttached ==
    /\ \A w \in Workers :
          IsActivated(resp[w]) =>
             /\ ExactlyOneAssignedRow(EsimByOrder(resp[w].order_id))
             /\ resp[w].inventory_item_id # 0
             /\ \E r \in inventory :
                   r.id = resp[w].inventory_item_id /\ r.status = "assigned"
    /\ \A e \in esims : e.status = "active" => ExactlyOneAssignedRow(e)

\* C18 witness: two activations succeeded, one attached to a row reserved
\* from the pool and the other to a row materialized from a provider result.
C18_Witness ==
    \E w, v \in Workers :
        /\ IsActivated(resp[w]) /\ IsActivated(resp[v])
        /\ \E r \in inventory :
              /\ r.id = resp[w].inventory_item_id
              /\ r.status = "assigned" /\ r.reserved_at # Null
        /\ \E r \in inventory :
              /\ r.id = resp[v].inventory_item_id
              /\ r.status = "assigned" /\ r.reserved_at = Null

(***************************************************************************)
(* Properties of the order's captured plan                                 *)
(***************************************************************************)

\* C20: an order's plan_snapshot, amount_minor_units and currency are fixed
\* when it is created.  create_order stores the snapshot of the plan it
\* read, the snapshot's price as the amount and the requested currency; no
\* later step (a plan update or delete, create_payment, a webhook, activate)
\* changes the three fields or removes the order; and reading the order at
\* any time returns the stored values, not the catalog's.
C20_CapturedPlanIsFixed ==
    /\ [](\A o \in orders :
            /\ serialize_order(o).plan_snapshot = o.plan_snapshot
            /\ serialize_order(o).amount_minor_units = o.amount_minor_units
            /\ serialize_order(o).currency = o.currency
            /\ o.amount_minor_units = o.plan_snapshot.price_minor_units
            /\ o.currency = o.plan_snapshot.currency)
    /\ [][/\ \A o \in orders :
               \E n \in orders' :
                  /\ n.id = o.id
                  /\ n.plan_snapshot = o.plan_snapshot
                  /\ n.amount_minor_units = o.amount_minor_units
                  /\ n.currency = o.currency
          /\ \A w \in Workers :
               CreateOrderCommit(w) =>
                  \E n \in orders' \ orders :
                     /\ n.plan_snapshot = loc[w].plan_snapshot
                     /\ n.amount_minor_units = loc[w].plan_snapshot.price_minor_units
                     /\ n.currency = loc[w].currency
         ]_vars

\* C20 witness: an order bought before a catalog edit has since been
\* activated and still reads as it was captured, differing from the
\* catalog's plan, beside an order created after the edit that captured the
\* edited plan.
C20_Witness ==
    /\ \E o \in orders :
          /\ o.plan_id \in DOMAIN plans
          /\ serialize_order(o).plan_snapshot =
                _build_plan_snapshot(Plan[o.plan_id], o.currency)
          /\ serialize_order(o).plan_snapshot #
                _build_plan_snapshot(plans[o.plan_id], o.currency)
          /\ EsimByOrder(o.id).status = "active"
    /\ \E n \in orders :
          /\ n.plan_id \in DOMAIN plans
          /\ n.plan_snapshot = _build_plan_snapshot(plans[n.plan_id], n.currency)
          /\ n.plan_snapshot # _build_plan_snapshot(Plan[n.plan_id], n.currency)

(***************************************************************************)
(* Properties of the order's life from creation to payment                 *)
(***************************************************************************)

PaymentById(rows, id) == CHOOSE p \in rows : p.id = id

\* C21: order status follows the payment outcome.  create_order commits
\* the order as CREATED; create_payment with the mock provider commits a
\* Payment in REQUIRES_ACTION and leaves every order as it was; a webhook
\* that read the Payment in REQUIRES_ACTION and its order CREATED commits
\* the Payment SUCCEEDED and the order PAID when the intent succeeded, and
\* both FAILED when it failed.
C21_OrderFollowsPayment ==
    [][\A w \in Workers :
          /\ CreateOrderCommit(w) =>
                \A n \in orders' \ orders : n.status = "created"
          /\ (PaymentCommit(w) /\ loc[w].op = "create_payment"
                 /\ loc[w].provider = "MOCK") =>
                /\ \E p \in payments' \ payments :
                      /\ p.order_id = loc[w].order_id
                      /\ p.status = "requires_action"
                /\ orders' = orders
          /\ (PaymentCommit(w) /\ loc[w].op = "webhook" /\ ~loc[w].poisoned
                 /\ loc[w].previous_status = "requires_action"
                 /\ loc[w].order_status = "created") =>
                /\ loc[w].intent_status = "succeeded" =>
                      /\ PaymentById(payments', loc[w].payment_id).status = "succeeded"
                      /\ \A n \in orders' : n.id = loc[w].order_id => n.status = "paid"
                /\ loc[w].intent_status = "failed" =>
                      /\ PaymentById(payments', loc[w].payment_id).status = "failed"
                      /\ \A n \in orders' : n.id = loc[w].order_id => n.status = "failed"
      ]_vars

\* C21 witness: an order that create_order committed has been paid: its
\* mock payment is SUCCEEDED and the order is PAID.
C21_Witness ==
    \E o \in orders, p \in payments, w \in Workers :
        /\ p.order_id = o.id /\ p.provider = "MOCK"
        /\ p.status = "succeeded" /\ o.status = "paid"
        /\ resp[w] = [code |-> 200, op |-> "webhook", intent_status |-> "succeeded"]

\* C23: when the generation of the invoice fails while a succeeded payment
\* is being reconciled, the webhook still commits: the delivery is answered
\* as processed, the Payment is SUCCEEDED and the Order is PAID.
C23_InvoiceFailureKeepsReconciliation ==
    [][\A w \in Workers :
          (/\ PaymentCommit(w)
           /\ loc[w].op = "webhook"
           /\ loc[w].payment_status = "succeeded"
           /\ loc[w].poisoned) =>
             /\ resp'[w].code = 200
             /\ \A p \in payments' : p.id = loc[w].payment_id => p.status = "succeeded"
             /\ \A n \in orders' : n.id = loc[w].order_id => n.status = "paid"
      ]_vars

\* C25: a webhook delivery changes a Payment's status, and its order's,
\* only if it was parsed by the provider that created the payment: a
\* delivery parsed by another provider, named by the provider query
\* parameter or taken from the configured default, leaves the payment and
\* its order as they are.
C25_OnlyCreatingProviderChangesPayment ==
    [][\A w \in Workers :
          (/\ PaymentCommit(w)
           /\ loc[w].op = "webhook"
           /\ loc[w].handler_provider # loc[w].provider) =>
             /\ payments' = payments
             /\ orders' = orders
      ]_vars

\* C26: in every reachable state an Order whose status is PAID has at least
\* one Payment whose current status is SUCCEEDED.
C26_PaidOrderHasSucceededPayment ==
    \A o \in orders :
        o.status = "paid" =>
           \E p \in payments : p.order_id = o.id /\ p.status = "succeeded"

\* The order is PAID and its profile awaits activation.
AwaitsActivation(order_id) ==
    /\ \E o \in orders : o.id = order_id /\ o.status = "paid"
    /\ \E e \in esims : e.order_id = order_id /\ e.status = "pending_activation"

IsActive(order_id) ==
    \E e \in esims : e.order_id = order_id /\ e.status = "active"

\* An AVAILABLE row tagged with the order's plan is in stock.
StockForOrder(order_id) ==
    \E o \in orders, row \in inventory :
        o.id = order_id /\ row.status = "available" /\ row.plan_id = o.plan_id

SameCodes(e, row) ==
    /\ e.activation_code = row.activation_code
    /\ e.iccid = row.iccid
    /\ e.qr_payload = row.qr_payload

\* The profile is ACTIVE with non-empty codes equal to those of the
\* inventory row it is linked to.
MatchesLinkedRow(e) ==
    /\ e.activation_code # Null /\ e.iccid # Null /\ e.qr_payload # Null
    /\ \E row \in inventory : row.id = e.inventory_item_id /\ SameCodes(e, row)

\* C28: after every successful activation the profile's activation_code,
\* iccid and qr_payload are non-empty and equal those of its linked
\* inventory row; when the row was reserved from the pool no provisioning
\* provider is called and the profile gets the row's pre-stocked values.
C28_ProfileCarriesInventoryCodes ==
    /\ [](\A e \in esims : e.status = "active" => MatchesLinkedRow(e))
    /\ [][\A w \in Workers :
            /\ (ActivateReserve(w) /\ pc'[w] = "act_commit") =>
                  loc'[w].result.provider = "INVENTORY"
            /\ (ActivateCommit(w) /\ loc[w].from_inventory) =>
                  \E row \in inventory :
                      /\ row.id = loc[w].item.id
                      /\ \A e \in esims' : e.id = loc[w].esim.id => SameCodes(e, row)
         ]_vars

\* Statuses a Stripe payment object may carry in an event.
StripeObjectStatuses == {"", "succeeded", "canceled", "processing", "failed"}

\* A signed Stripe event of type event_type about an existing payment, whose
\* object carries status, is taken up by session w.
StripeEventTaken(w, event_type, status) ==
    \E p \in payments :
        PaymentWebhookBegin(w, "", TRUE,
            [intent_id |-> p.intent_id, type |-> event_type, status |-> status])

\* C29 as stated: the production provider maps payment_intent.succeeded to
\* succeeded, payment_intent.payment_failed and payment_intent.canceled to
\* failed, and every other event type to requires_action, whatever the
\* payload.
C29_StatusFromEventTypeOnly ==
    [][\A w \in Workers, t \in StripeEventTypes, st \in StripeObjectStatuses :
          StripeEventTaken(w, t, st) =>
             loc'[w].intent_status =
                IF t = "payment_intent.succeeded" THEN "succeeded"
                ELSE IF t \in {"payment_intent.payment_failed",
                               "payment_intent.canceled"} THEN "failed"
                ELSE "requires_action"
      ]_vars

\* C29, amended: payment_intent.succeeded gives succeeded,
\* payment_intent.payment_failed and payment_intent.canceled give failed,
\* and any other event type gives the normalized status of the payment
\* object it carries: succeeded for succeeded, failed for canceled,
\* requires_action for anything else or none.
C29_StatusFromEventThenObject ==
    [][\A w \in Workers, t \in StripeEventTypes, st \in StripeObjectStatuses :
          StripeEventTaken(w, t, st) =>
             loc'[w].intent_status =
                IF t = "payment_intent.succeeded" THEN "succeeded"
                ELSE IF t \in {"payment_intent.payment_failed",
                               "payment_intent.canceled"} THEN "failed"
                ELSE IF st = "succeeded" THEN "succeeded"
                ELSE IF st = "canceled" THEN "failed"
                ELSE "requires_action"
      ]_vars

\* C29 witness: Stripe events were mapped to each of the three statuses: one
\* delivery was answered failed, one succeeded, and one mapped to
\* requires_action is being reconciled.
C29_Witness ==
    \E w, v \in Workers :
        /\ w # v
        /\ resp[w] = [code |-> 200, op |-> "webhook", intent_status |-> "failed"]
        /\ pc[v] = "pay_commit" /\ loc[v].handler_provider = "STRIPE"
        /\ loc[v].intent_status = "requires_action"
        /\ \E e \in events : e.event_type = "payment_succeeded"

\* cents is amount (in thousandths of a currency unit) times 100 rounded to
\* the nearest integer, ties upward.
IsHalfUp(amount, cents) ==
    /\ 10 * cents - 5 <= amount
    /\ amount < 10 * cents + 5

\* C30: the conversion to minor units is half-up rounding of the price
\* times 100 (12.50 gives 1250); create_order stores as amount_minor_units
\* the plan's current price so converted, and the stored plan_snapshot's
\* price_minor_units equals the order's amount_minor_units.
C30_AmountIsHalfUpPrice ==
    /\ [](/\ \A amount \in 0..MaxAmount : IsHalfUp(amount, to_minor_units(amount))
          /\ to_minor_units(12500) = 1250)
    /\ [][\A w \in Workers :
            CreateOrderCommit(w) =>
               \A n \in orders' \ orders :
                   /\ IsHalfUp(plans[n.plan_id].price_usd, n.amount_minor_units)
                   /\ n.plan_snapshot.price_minor_units = n.amount_minor_units
         ]_vars

\* C30 witness: an order for the plan priced 12.50 was created with
\* 1250 minor units, in the order and in its snapshot.
C30_Witness ==
    \E o \in orders :
        /\ o.status = "created"
        /\ plans[o.plan_id].price_usd = 12500
        /\ o.amount_minor_units = 1250
        /\ o.plan_snapshot.price_minor_units = 1250

(***************************************************************************)
(* Properties of request validation                                        *)
(***************************************************************************)

Rejected(w, op, code) ==
    /\ resp'[w] = [code |-> code, op |-> op]
    /\ pc'[w] = "idle"
    /\ ledger' = ledger
    /\ ids' = ids

\* A PAID order whose profile has not been provisioned and is in a status
\* activation does not start from.
NotReadyForActivation(o) ==
    /\ o.status = "paid"
    /\ \E e \in esims :
          /\ e.order_id = o.id
          /\ e.provisioned_at = Null
          /\ e.status \in {"draft", "failed", "expired"}

\* C22: a request rejected by local validation leaves the ledger unchanged.
\* create_order for a plan that does not exist is answered 404,
\* create_payment with an unsupported provider 400, a webhook without an
\* intent id 400, a webhook naming an intent no payment has 404, and
\* activate on a profile that is neither PENDING_ACTIVATION nor RESERVED
\* 400; each of these steps, and every step answered 400 or 404, adds and
\* modifies no row.
C22_RejectedRequestsChangeNothing ==
    [][\A w \in Workers :
          /\ \A user \in Users, plan_id \in RequestedPlans \ DOMAIN plans :
                CreateOrderBegin(w, user, plan_id, "USD", << >>) =>
                   Rejected(w, "create_order", 404)
          /\ \A o \in orders :
                CreatePaymentBegin(w, o.user_id, o.id, "PAYPAL", "") =>
                   Rejected(w, "create_payment", 400)
          /\ \A st \in {"succeeded", "failed"} :
                /\ PaymentWebhookBegin(w, "MOCK", TRUE,
                       [intent_id |-> Null, status |-> st, action |-> "succeed"]) =>
                      Rejected(w, "webhook", 400)
                /\ PaymentWebhookBegin(w, "MOCK", TRUE,
                       [intent_id |-> <<"pi", 0>>, status |-> st,
                        action |-> "succeed"]) =>
                      Rejected(w, "webhook", 404)
          /\ \A o \in orders :
                (NotReadyForActivation(o) /\ ActivateBegin(w, o.user_id, o.id)) =>
                   Rejected(w, "activate", 400)
          /\ (resp'[w] # resp[w] /\ resp'[w].code \in {400, 404}) =>
                (ledger' = ledger /\ ids' = ids)
      ]_vars

\* C22 witness: activate was refused for a PAID order whose profile is
\* FAILED, and the profile is still FAILED with nothing attached.
C22_Witness ==
    \E w \in Workers, o \in orders :
        /\ resp[w] = [code |-> 400, op |-> "activate"]
        /\ NotReadyForActivation(o)
        /\ EsimByOrder(o.id).status = "failed"
        /\ EsimByOrder(o.id).inventory_item_id = 0
        /\ inventory = {}

(***************************************************************************)
(* Specifications                                                          *)
(***************************************************************************)
\* The defaults of class Settings.
DefaultSettings ==
    [ESIM_PROVIDER |-> "LOCAL", CONNECTED_YOU_PARTNER_ID |-> Null,
     CONNECTED_YOU_DRY_RUN |-> TRUE,
     PAYMENT_PROVIDER |-> "MOCK", STRIPE_SECRET_KEY |-> Null,
     STRIPE_WEBHOOK_SECRET |-> Null]

EmptyLedger ==
    /\ orders = {} /\ esims = {} /\ inventory = {}
    /\ payments = {} /\ invoices = {} /\ events = {}
    /\ ids = [order |-> 1, esim |-> 1, inventory |-> 1, payment |-> 1,
              invoice |-> 1, uuid |-> 1]

WorkersIdle ==
    /\ pc = [w \in Workers |-> "idle"]
    /\ loc = [w \in Workers |-> Idle]
    /\ resp = [w \in Workers |-> NoResp]

\* Order creation on an empty ledger.
InitOrders ==
    /\ EmptyLedger
    /\ WorkersIdle
    /\ budget = [orders |-> MaxOrders, activate |-> 0, payments |-> 0]
    /\ settings = DefaultSettings
    /\ plans = Plan

NextOrders == \E w \in Workers : CreateOrder(w)

SpecOrders == InitOrders /\ [][NextOrders]_vars

\* Deployment configurations of the provisioning provider.
EsimSettings ==
    {DefaultSettings,
     [DefaultSettings EXCEPT !.ESIM_PROVIDER = "CONNECTED_YOU",
                             !.CONNECTED_YOU_PARTNER_ID = <<"partner">>,
                             !.CONNECTED_YOU_DRY_RUN = FALSE],
     [DefaultSettings EXCEPT !.ESIM_PROVIDER = "CONNECTED_YOU"]}

\* An order as create_order commits it and a succeeded webhook marks it.
PaidOrder(id, user, plan_id) ==
    [id |-> id, user_id |-> user, plan_id |-> plan_id, status |-> "paid",
     currency |-> "USD",
     amount_minor_units |-> to_minor_units(Plan[plan_id].price_usd),
     idempotency_key |-> Null,
     plan_snapshot |-> _build_plan_snapshot(Plan[plan_id], "USD"),
     request_key |-> << >>]

PendingEsim(id, order) ==
    [id |-> id, order_id |-> order.id, user_id |-> order.user_id,
     plan_id |-> order.plan_id,
     country_id |-> Plan[order.plan_id].country_id,
     carrier_id |-> Plan[order.plan_id].carrier_id,
     status |-> "pending_activation",
     activation_code |-> Null, iccid |-> Null, qr_payload |-> Null,
     provisioned_at |-> Null, inventory_item_id |-> 0]

\* A pre-stocked inventory row (admin CSV import, seed data).
StockRow(id, plan_id) ==
    [id |-> id, plan_id |-> plan_id,
     country_id |-> Plan[plan_id].country_id,
     carrier_id |-> Plan[plan_id].carrier_id,
     activation_code |-> <<"INV", id>>, iccid |-> <<"899", id>>,
     qr_payload |-> <<"LPA", id>>,
     status |-> "available", reserved_at |-> Null, assigned_at |-> Null]

\* Activation on a ledger that holds two paid orders of plan 1, by two
\* users, and up to MaxStock pre-stocked rows tagged with plan 1 or 2.
InitActivation ==
    /\ orders = {PaidOrder(1, 1, 1), PaidOrder(2, 11, 1)}
    /\ esims = {PendingEsim(o.id, o) : o \in orders}
    /\ \E n \in 0..MaxStock : \E tag \in [1..n -> PlanIds] :
          /\ inventory = {StockRow(i, tag[i]) : i \in 1..n}
          /\ ids = [order |-> 3, esim |-> 3, inventory |-> n + 1, payment |-> 3,
                    invoice |-> 3, uuid |-> 1]
    /\ payments = {[id |-> o.id, order_id |-> o.id, provider |-> "MOCK",
                    status |-> "succeeded", intent_id |-> <<"mock_intent", o.id>>] :
                       o \in orders}
    /\ invoices = {[id |-> o.id, order_id |-> o.id,
                    invoice_number |-> <<"TRB", o.id>>] : o \in orders}
    /\ events = {[event_type |-> t, order_id |-> o.id, payment_id |-> pid, n |-> 1] :
                    o \in orders,
                    t \in {"checkout_started"}, pid \in {0}}
                \cup {[event_type |-> "payment_succeeded", order_id |-> o.id,
                       payment_id |-> o.id, n |-> 1] : o \in orders}
    /\ WorkersIdle
    /\ budget = [orders |-> 0, activate |-> MaxActivate, payments |-> 0]
    /\ settings \in EsimSettings
    /\ plans = Plan

NextActivation == \E w \in Workers : Activate(w)

SpecActivation == InitActivation /\ [][NextActivation]_vars

\* Concurrent activations for distinct orders: each session activates its
\* own order, once, as the order's owner.
ActivateOwnOrder(w) ==
    /\ resp[w] = NoResp
    /\ ActivateBegin(w, OrderById(OwnOrder(w)).user_id, OwnOrder(w))

NextPool ==
    \E w \in Workers :
        \/ ActivateOwnOrder(w)
        \/ ActivateReserve(w)
        \/ ProvisionRaises(w)
        \/ ProviderConstructionRaises(w)
        \/ ProvisionReturns(w)
        \/ ActivateCommit(w)
        \/ ActivateRefresh(w)

SpecPool == InitActivation /\ [][NextPool]_vars

\* An order, its profile and its payment as seed/sample_data.py writes them
\* for the REFUNDED entry of its status cycle, with no inventory attached.
SeededRefundedOrder(id, user, plan_id) ==
    [PaidOrder(id, user, plan_id) EXCEPT
        !.status = "refunded",
        !.idempotency_key = <<"seed">>]

SeededEsim(id, order) ==
    [PendingEsim(id, order) EXCEPT !.status = "reserved",
                                   !.activation_code = <<"PENDING", order.id>>]

SeededPayment(id, order) ==
    [id |-> id, order_id |-> order.id, provider |-> "MOCK", status |-> "succeeded",
     intent_id |-> <<"seed_intent", order.id>>]

\* The row create_payment leaves with the mock provider.
MockPayment(id, order) ==
    [id |-> id, order_id |-> order.id, provider |-> "MOCK", status |-> "requires_action",
     intent_id |-> <<"mock_intent", 1>>]

CreatedOrder(id, user, plan_id) ==
    [PaidOrder(id, user, plan_id) EXCEPT !.status = "created"]

\* Payments on a ledger that holds one seeded REFUNDED order (with its
\* seeded, succeeded payment) and one order from create_order for which
\* create_payment has opened a mock intent.
InitPayments ==
    /\ orders = {SeededRefundedOrder(1, 11, 2), CreatedOrder(2, 1, 1)}
    /\ esims = {SeededEsim(1, SeededRefundedOrder(1, 11, 2)),
                PendingEsim(2, CreatedOrder(2, 1, 1))}
    /\ inventory = {}
    /\ payments = {SeededPayment(1, SeededRefundedOrder(1, 11, 2)),
                   MockPayment(2, CreatedOrder(2, 1, 1))}
    /\ invoices = {}
    /\ events = {[event_type |-> "checkout_started", order_id |-> 2, payment_id |-> 0,
                  n |-> 1]}
    /\ ids = [order |-> 3, esim |-> 3, inventory |-> 1, payment |-> 3,
              invoice |-> 1, uuid |-> 2]
    /\ WorkersIdle
    /\ budget = [orders |-> 0, activate |-> 0, payments |-> MaxPaymentCalls]
    /\ settings = DefaultSettings
    /\ plans = Plan

NextPayments ==
    \E w \in Workers :
        \/ CreatePayment(w)
        \/ PaymentWebhook(w)
        \/ IssueInvoiceFlush(w)
        \/ PaymentCommit(w)

SpecPayments == InitPayments /\ [][NextPayments]_vars

\* Checkout on a default deployment: one PAID order not yet activated and
\* one CREATED order with an open mock intent, by two users, with at most
\* one pre-stocked row; the environment sends up to MaxCalls payment and
\* activation requests in any mix; activations name existing orders.
InitCheckout ==
    /\ orders = {PaidOrder(1, 1, 1), CreatedOrder(2, 11, 1)}
    /\ esims = {PendingEsim(o.id, o) : o \in orders}
    /\ \E n \in 0..1 :
          /\ inventory = {StockRow(i, 1) : i \in 1..n}
          /\ ids = [order |-> 3, esim |-> 3, inventory |-> n + 1, payment |-> 3,
                    invoice |-> 2, uuid |-> 2]
    /\ payments = {[MockPayment(1, PaidOrder(1, 1, 1)) EXCEPT
                        !.status = "succeeded", !.intent_id = <<"mock_intent", 0>>],
                   MockPayment(2, CreatedOrder(2, 11, 1))}
    /\ invoices = {[id |-> 1, order_id |-> 1,
                    invoice_number |-> _generate_invoice_number(1)]}
    /\ events = {[event_type |-> "checkout_started", order_id |-> o.id,
                  payment_id |-> 0, n |-> 1] : o \in orders}
                \cup {[event_type |-> "payment_succeeded", order_id |-> 1,
                       payment_id |-> 1, n |-> 1]}
    /\ WorkersIdle
    /\ \E a \in 0..MaxCalls :
          budget = [orders |-> 0, activate |-> a, payments |-> MaxCalls - a]
    /\ settings = DefaultSettings
    /\ plans = Plan

NextCheckout ==
    \E w \in Workers :
        \/ CreatePayment(w)
        \/ PaymentWebhook(w)
        \/ IssueInvoiceFlush(w)
        \/ PaymentCommit(w)
        \/ \E user \in Users, order_id \in {o.id : o \in orders} :
              ActivateBegin(w, user, order_id)
        \/ ActivateReserve(w)
        \/ ProvisionReturns(w)
        \/ ActivateCommit(w)
        \/ ActivateRefresh(w)

SpecCheckout == InitCheckout /\ [][NextCheckout]_vars

\* Orders and the catalog: one PAID and one CREATED order of plan 1 bought
\* at the seeded catalog's price; the environment sends one create_order,
\* one payment request (create_payment or a webhook) and one activation,
\* in any order and overlap, and an admin sends up to MaxEdits plan updates
\* and deletes.
InitCatalog ==
    /\ orders = {PaidOrder(1, 1, 1), CreatedOrder(2, 11, 1)}
    /\ esims = {PendingEsim(o.id, o) : o \in orders}
    /\ inventory = {}
    /\ ids = [order |-> 3, esim |-> 3, inventory |-> 1, payment |-> 3,
              invoice |-> 2, uuid |-> 2]
    /\ payments = {[MockPayment(1, PaidOrder(1, 1, 1)) EXCEPT
                        !.status = "succeeded", !.intent_id = <<"mock_intent", 0>>],
                   MockPayment(2, CreatedOrder(2, 11, 1))}
    /\ invoices = {[id |-> 1, order_id |-> 1,
                    invoice_number |-> _generate_invoice_number(1)]}
    /\ events = {[event_type |-> "checkout_started", order_id |-> o.id,
                  payment_id |-> 0, n |-> 1] : o \in orders}
                \cup {[event_type |-> "payment_succeeded", order_id |-> 1,
                       payment_id |-> 1, n |-> 1]}
    /\ WorkersIdle
    /\ budget = [orders |-> 1, activate |-> 1, payments |-> 1,
                 catalog |-> MaxEdits]
    /\ settings = DefaultSettings
    /\ plans = Plan

NextCatalog ==
    \/ \E w \in Workers :
          \/ \E user \in Users, plan_id \in RequestedPlans, currency \in Currencies :
                CreateOrderBegin(w, user, plan_id, currency, << >>)
          \/ CreateOrderFlush(w)
          \/ CreateOrderCommit(w)
          \/ \E o \in orders : CreatePaymentBegin(w, o.user_id, o.id, "MOCK", "")
          \/ \E p \in payments, st \in {"succeeded", "failed"} :
                PaymentWebhookBegin(w, "MOCK", TRUE,
                    [intent_id |-> p.intent_id, status |-> st, action |-> "succeed"])
          \/ IssueInvoiceFlush(w)
          \/ PaymentCommit(w)
          \/ \E o \in orders : ActivateBegin(w, o.user_id, o.id)
          \/ ActivateReserve(w)
          \/ ProvisionReturns(w)
          \/ ActivateCommit(w)
          \/ ActivateRefresh(w)
    \/ \E plan_id \in RequestedPlans, payload \in PlanUpdates :
          UpdatePlan(plan_id, payload)
    \/ \E plan_id \in RequestedPlans : DeletePlan(plan_id)

SpecCatalog == InitCatalog /\ [][NextCatalog]_vars

\* An order's life on an empty ledger: one create_order, then up to
\* MaxPaymentCalls create_payment calls and mock webhook deliveries for the
\* intents that exist, in any order and overlap.
InitFlow ==
    /\ EmptyLedger
    /\ WorkersIdle
    /\ budget = [orders |-> 1, activate |-> 0, payments |-> MaxPaymentCalls]
    /\ settings = DefaultSettings
    /\ plans = Plan

NextFlow ==
    \E w \in Workers :
        \/ \E user \in Users, plan_id \in RequestedPlans :
              CreateOrderBegin(w, user, plan_id, "USD", << >>)
        \/ CreateOrderFlush(w)
        \/ CreateOrderCommit(w)
        \/ \E o \in orders, provider \in {"", "MOCK"} :
              CreatePaymentBegin(w, o.user_id, o.id, provider, "")
        \/ \E p \in payments, st \in {"succeeded", "failed"} :
              PaymentWebhookBegin(w, "MOCK", TRUE,
                  [intent_id |-> p.intent_id, status |-> st, action |-> "succeed"])
        \/ IssueInvoiceFlush(w)
        \/ PaymentCommit(w)

SpecFlow == InitFlow /\ [][NextFlow]_vars

\* An order, its profile and its payment as seed/sample_data.py writes them
\* for the FAILED entry of its status cycle.
SeededFailedOrder(id, user, plan_id) ==
    [PaidOrder(id, user, plan_id) EXCEPT
        !.status = "failed",
        !.idempotency_key = <<"seed">>]

SeededFailedEsim(id, order) ==
    [PendingEsim(id, order) EXCEPT !.status = "failed",
                                   !.activation_code = <<"PENDING", order.id>>]

SeededFailedPayment(id, order) ==
    [SeededPayment(id, order) EXCEPT !.status = "failed"]

\* Valid and invalid requests on a ledger that holds one seeded FAILED
\* order: one create_order, MaxCalls payment requests, two activations.
InitValidation ==
    /\ orders = {SeededFailedOrder(1, 1, 1)}
    /\ esims = {SeededFailedEsim(1, SeededFailedOrder(1, 1, 1))}
    /\ inventory = {}
    /\ payments = {SeededFailedPayment(1, SeededFailedOrder(1, 1, 1))}
    /\ invoices = {}
    /\ events = {}
    /\ ids = [order |-> 2, esim |-> 2, inventory |-> 1, payment |-> 2,
              invoice |-> 1, uuid |-> 1]
    /\ WorkersIdle
    /\ budget = [orders |-> 1, activate |-> 2, payments |-> MaxCalls]
    /\ settings = DefaultSettings
    /\ plans = Plan

NextValidation ==
    \E w \in Workers :
        \/ \E user \in Users, plan_id \in RequestedPlans :
              CreateOrderBegin(w, user, plan_id, "USD", << >>)
        \/ CreateOrderFlush(w)
        \/ CreateOrderCommit(w)
        \/ \E o \in orders, provider \in {"MOCK", "PAYPAL"} :
              CreatePaymentBegin(w, o.user_id, o.id, provider, "")
        \/ \E i \in WebhookIntentIds, st \in {"succeeded", "failed"} :
              PaymentWebhookBegin(w, "MOCK", TRUE,
                  [intent_id |-> i, status |-> st, action |-> "succeed"])
        \/ IssueInvoiceFlush(w)
        \/ PaymentCommit(w)
        \/ \E o \in orders : ActivateBegin(w, o.user_id, o.id)
        \/ ActivateReserve(w)
        \/ ProvisionReturns(w)
        \/ ActivateCommit(w)
        \/ ActivateRefresh(w)

SpecValidation == InitValidation /\ [][NextValidation]_vars

\* Prices of plan 1, in cents, as the column Numeric(8, 2) holds them.
PriceCents == {0, 1, 1250, 1999}

\* Order creation on an empty ledger, for a catalog whose plan 1 has one of
\* the prices above.
InitPricing ==
    /\ EmptyLedger
    /\ WorkersIdle
    /\ budget = [orders |-> MaxOrders, activate |-> 0, payments |-> 0]
    /\ settings = DefaultSettings
    /\ \E cents \in PriceCents : plans = [Plan EXCEPT ![1].price_usd = 10 * cents]

NextPricing ==
    \E w \in Workers :
        \/ \E plan_id \in PlanIds, currency \in Currencies :
              CreateOrderBegin(w, 1, plan_id, currency, << >>)
        \/ CreateOrderFlush(w)
        \/ CreateOrderCommit(w)

SpecPricing == InitPricing /\ [][NextPricing]_vars

\* A PAID order as seed/sample_data.py writes it with no inventory attached:
\* its profile is RESERVED and carries the placeholder code PENDING-<id>.
SeededPaidOrder(id, user, plan_id) ==
    [SeededRefundedOrder(id, user, plan_id) EXCEPT !.status = "paid"]

\* A row the CSV import accepts: only activation_code is required.
PartialStockRow(id, plan_id) ==
    [StockRow(id, plan_id) EXCEPT !.iccid = Null, !.qr_payload = Null]

\* Activation of a seeded PAID order by its owner, from two sessions, with
\* up to MaxStock rows of its plan in stock, imported with or without an
\* iccid and a QR payload.
InitSeeded ==
    /\ orders = {SeededPaidOrder(1, 1, 1)}
    /\ esims = {SeededEsim(1, SeededPaidOrder(1, 1, 1))}
    /\ \E n \in 0..MaxStock : \E complete \in [1..n -> BOOLEAN] :
          /\ inventory = {IF complete[i] THEN StockRow(i, 1)
                          ELSE PartialStockRow(i, 1) : i \in 1..n}
          /\ ids = [order |-> 2, esim |-> 2, inventory |-> n + 1, payment |-> 2,
                    invoice |-> 1, uuid |-> 1]
    /\ payments = {SeededPayment(1, SeededPaidOrder(1, 1, 1))}
    /\ invoices = {}
    /\ events = {}
    /\ WorkersIdle
    /\ budget = [orders |-> 0, activate |-> MaxActivate, payments |-> 0]
    /\ settings = DefaultSettings
    /\ plans = Plan

NextSeeded ==
    \E w \in Workers :
        \/ \E o \in orders : ActivateBegin(w, o.user_id, o.id)
        \/ ActivateReserve(w)
        \/ ProvisionReturns(w)
        \/ ActivateCommit(w)
        \/ ActivateRefresh(w)

SpecSeeded == InitSeeded /\ [][NextSeeded]_vars

\* POST /api/admin/inventory/import with one new row tagged with a plan:
\* the row is inserted AVAILABLE.
ImportInventory(plan_id) ==
    /\ Cardinality(inventory) < MaxStock
    /\ inventory' = inventory \cup {StockRow(ids.inventory, plan_id)}
    /\ ids' = [ids EXCEPT !.inventory = @ + 1]
    /\ UNCHANGED <<orders, esims, payments, invoices, events, pc, loc, resp, budget,
                   settings, plans>>

\* The client may always send another request: the count of requests is
\* bounded only between two of these steps.
NextRequestArrives ==
    /\ budget.activate = 0
    /\ budget' = [budget EXCEPT !.activate = MaxActivate]
    /\ UNCHANGED <<ledger, ids, pc, loc, resp, settings, plans>>

\* The owner asks again for an order whose profile is not yet ACTIVE.
RetryActivate(w) ==
    \E o \in orders : ~IsActive(o.id) /\ ActivateBegin(w, o.user_id, o.id)

\* One PAID order awaiting activation on a deployment whose provisioning
\* provider is the live partner API, which may fail or succeed at each call;
\* the owner retries from two sessions and the admin may stock rows.
InitRetry ==
    /\ orders = {PaidOrder(1, 1, 1)}
    /\ esims = {PendingEsim(1, PaidOrder(1, 1, 1))}
    /\ inventory = {}
    /\ payments = {[MockPayment(1, PaidOrder(1, 1, 1)) EXCEPT !.status = "succeeded"]}
    /\ invoices = {[id |-> 1, order_id |-> 1,
                    invoice_number |-> _generate_invoice_number(1)]}
    /\ events = {}
    /\ ids = [order |-> 2, esim |-> 2, inventory |-> 1, payment |-> 2,
              invoice |-> 2, uuid |-> 1]
    /\ WorkersIdle
    /\ budget = [orders |-> 0, activate |-> MaxActivate, payments |-> 0]
    /\ settings = [DefaultSettings EXCEPT !.ESIM_PROVIDER = "CONNECTED_YOU",
                                          !.CONNECTED_YOU_PARTNER_ID = <<"partner">>,
                                          !.CONNECTED_YOU_DRY_RUN = FALSE]
    /\ plans = Plan

NextRetry ==
    \/ \E plan_id \in PlanIds : ImportInventory(plan_id)
    \/ NextRequestArrives
    \/ \E w \in Workers :
          \/ \E o \in orders : ActivateBegin(w, o.user_id, o.id)
          \/ ActivateReserve(w)
          \/ ProvisionRaises(w)
          \/ ProvisionReturns(w)
          \/ ActivateCommit(w)
          \/ ActivateRefresh(w)

\* Every request that was accepted runs to its response (the server
\* finishes the handlers it started), and the owner keeps retrying.
RetryFairness ==
    /\ WF_vars(NextRequestArrives)
    /\ \A w \in Workers :
          /\ SF_vars(RetryActivate(w))
          /\ WF_vars(ActivateReserve(w))
          /\ WF_vars(ProvisionRaises(w) \/ ProvisionReturns(w))
          /\ WF_vars(ActivateCommit(w))
          /\ WF_vars(ActivateRefresh(w))

SpecRetry == InitRetry /\ [][NextRetry]_vars /\ RetryFairness

\* A deployment with Stripe's secret key and webhook secret configured,
\* whose default provider is Stripe or the mock.
StripeSettings ==
    {[DefaultSettings EXCEPT !.PAYMENT_PROVIDER = name,
                             !.STRIPE_SECRET_KEY = <<"sk">>,
                             !.STRIPE_WEBHOOK_SECRET = <<"whsec">>] :
        name \in {"STRIPE", "MOCK"}}

\* One CREATED order; create_payment opens Stripe intents for it and
\* webhooks arrive for either provider, signed or not, MaxPaymentCalls
\* requests in all.
InitStripe ==
    /\ orders = {CreatedOrder(1, 1, 1)}
    /\ esims = {PendingEsim(1, CreatedOrder(1, 1, 1))}
    /\ inventory = {}
    /\ payments = {}
    /\ invoices = {}
    /\ events = {[event_type |-> "checkout_started", order_id |-> 1, payment_id |-> 0,
                  n |-> 1]}
    /\ ids = [order |-> 2, esim |-> 2, inventory |-> 1, payment |-> 1,
              invoice |-> 1, uuid |-> 1]
    /\ WorkersIdle
    /\ budget = [orders |-> 0, activate |-> 0, payments |-> MaxPaymentCalls]
    /\ settings \in StripeSettings
    /\ plans = Plan

NextStripe ==
    \E w \in Workers :
        \/ \E o \in orders :
              CreatePaymentBegin(w, o.user_id, o.id, "STRIPE", "requires_payment_method")
        \/ \E provider \in {"", "MOCK", "STRIPE"}, signed \in BOOLEAN,
              p \in payments :
              LET provider_name == IF provider = "" THEN settings.PAYMENT_PROVIDER
                                   ELSE provider
              IN  IF provider_name = "STRIPE"
                  THEN \E t \in {"payment_intent.succeeded",
                                  "payment_intent.payment_failed"} :
                          PaymentWebhookBegin(w, provider, signed,
                              [intent_id |-> p.intent_id, type |-> t,
                               status |-> "processing"])
                  ELSE \E st \in {"succeeded", "failed"} :
                          PaymentWebhookBegin(w, provider, signed,
                              [intent_id |-> p.intent_id, status |-> st,
                               action |-> "succeed"])
        \/ IssueInvoiceFlush(w)
        \/ PaymentCommit(w)

SpecStripe == InitStripe /\ [][NextStripe]_vars

\* The row create_payment leaves with the Stripe provider.
StripePayment(id, order) ==
    [id |-> id, order_id |-> order.id, provider |-> "STRIPE",
     status |-> "requires_action", intent_id |-> <<"pi", 1>>]

\* A deployment whose provider is Stripe, one CREATED order with an open
\* Stripe intent, and MaxPaymentCalls signed Stripe events about it, of any
\* type and object status.
InitStripeEvents ==
    /\ orders = {CreatedOrder(1, 1, 1)}
    /\ esims = {PendingEsim(1, CreatedOrder(1, 1, 1))}
    /\ inventory = {}
    /\ payments = {StripePayment(1, CreatedOrder(1, 1, 1))}
    /\ invoices = {}
    /\ events = {[event_type |-> "checkout_started", order_id |-> 1, payment_id |-> 0,
                  n |-> 1]}
    /\ ids = [order |-> 2, esim |-> 2, inventory |-> 1, payment |-> 2,
              invoice |-> 1, uuid |-> 2]
    /\ WorkersIdle
    /\ budget = [orders |-> 0, activate |-> 0, payments |-> MaxPaymentCalls]
    /\ settings = [DefaultSettings EXCEPT !.PAYMENT_PROVIDER = "STRIPE",
                                          !.STRIPE_SECRET_KEY = <<"sk">>,
                                          !.STRIPE_WEBHOOK_SECRET = <<"whsec">>]
    /\ plans = Plan

NextStripeEvents ==
    \E w \in Workers :
        \/ \E t \in StripeEventTypes, st \in StripeObjectStatuses :
              StripeEventTaken(w, t, st)
        \/ IssueInvoiceFlush(w)
        \/ PaymentCommit(w)

SpecStripeEvents == InitStripeEvents /\ [][NextStripeEvents]_vars

====
